---------------------------- MODULE Spec2Model ----------------------------
(***************************************************************************)
(* Model of src/src/scripts/mta_import_core_partridge.py: the GTFS         *)
(* canonicalisation pass (process_mode) and the import driver (main).      *)
(*                                                                         *)
(* Data representation                                                     *)
(*   - a text is a sequence of one-character strings;                      *)
(*   - None (Python None, pandas NaN) is the one-element sequence          *)
(*     <<"None">>, which is no text because "None" is no character;        *)
(*   - an Optional[int] is <<>> (None) or <<n>>;                           *)
(*   - a dict is a function whose DOMAIN is its key set.                   *)
(***************************************************************************)
EXTENDS Integers, Sequences, FiniteSets, TLC

VARIABLES
    mode,                 \* process_mode's mode argument
    pc,                   \* position inside process_mode
    station_map,          \* station id -> station record
    raw_stop_to_station,  \* raw stop id -> station id (one dataset)
    route_map,            \* route id -> route record
    trip_map,             \* trip id -> <<route id, direction>>
    route_stop_map,       \* <<route id, direction, station id>> -> Optional[int]
    missing_trip_refs,    \* counter
    missing_stop_ids,     \* set of raw stop ids
    result,               \* process_mode's return value (once pc = "done")
    rows_parsed,          \* table -> rows consumed so far (the *_rows_parsed counters)
    cur_row,              \* the stops / stop_times row the last iteration consumed
    stop_log,             \* history: <<raw stop id, parent, name>> of every kept stop row
    route_seen,           \* history: route id -> incoming records, in row order
    st_seen,              \* history: assignment key -> sequences observed
    st_count,             \* history: counts of stop-time rows by outcome
    main_pc,              \* position inside main
    main_mode,            \* the mode main is handling
    bus_index,            \* bus datasets handled so far
    dirs,                 \* mode -> number of qualifying dataset directories
    loaded,               \* the value process_mode returned to main last
    conn,                 \* the database connection: "none", "open", "closed"
    sink_log,             \* sink operations issued so far, in order
    tx,                   \* table contents as the open transaction sees them
    committed,            \* committed table contents
    report,               \* main's counts and warnings
    bus_acc,              \* main's cumulative bus sets and counter
    main_err              \* the exception that ended main ("" if none)

pm_vars   == <<mode, pc, station_map, raw_stop_to_station, route_map, trip_map,
               route_stop_map, missing_trip_refs, missing_stop_ids, result,
               rows_parsed, cur_row>>
hist_vars == <<stop_log, route_seen, st_seen, st_count>>
main_vars == <<main_pc, main_mode, bus_index, dirs, loaded, conn, sink_log, tx,
               committed, report, bus_acc, main_err>>
vars      == <<pm_vars, hist_vars, main_vars>>

---------------------------------------------------------------------------
(* Python values *)

None == <<"None">>

IntNone == <<>>

Some(n) == <<n>>

EmptyDict == <<>>

DictPut(d, k, v) == [x \in (DOMAIN d) \cup {k} |-> IF x = k THEN v ELSE d[x]]

\* bool(value) of a text or None
Truthy(v) == v # None /\ v # <<>>

\* a or b
PyOr(a, b) == IF Truthy(a) THEN a ELSE b

---------------------------------------------------------------------------
(* Characters of the model's texts, with their code points *)

DigitSeq == <<"0", "1", "2", "3", "4", "5", "6", "7", "8", "9">>

UpperSeq == <<"A", "B", "C", "D", "E", "F", "G", "H", "I", "J", "K", "L", "M",
              "N", "O", "P", "Q", "R", "S", "T", "U", "V", "W", "X", "Y", "Z">>

LowerSeq == <<"a", "b", "c", "d", "e", "f", "g", "h", "i", "j", "k", "l", "m",
              "n", "o", "p", "q", "r", "s", "t", "u", "v", "w", "x", "y", "z">>

IndexIn(s, c) == CHOOSE i \in 1..Len(s) : s[i] = c

IsIn(s, c) == \E i \in 1..Len(s) : s[i] = c

\* ord(c)
Ord(c) ==
    IF IsIn(DigitSeq, c) THEN 47 + IndexIn(DigitSeq, c)
    ELSE IF IsIn(UpperSeq, c) THEN 64 + IndexIn(UpperSeq, c)
    ELSE IF IsIn(LowerSeq, c) THEN 96 + IndexIn(LowerSeq, c)
    ELSE CASE c = " " -> 32 [] c = "+" -> 43 [] c = "-" -> 45 [] c = "." -> 46

UpperChar(c) == IF IsIn(LowerSeq, c) THEN UpperSeq[IndexIn(LowerSeq, c)] ELSE c

\* str.upper()
Upper(s) == [i \in 1..Len(s) |-> UpperChar(s[i])]

RECURSIVE LStrip(_)
LStrip(s) == IF s # <<>> /\ Head(s) = " " THEN LStrip(Tail(s)) ELSE s

RECURSIVE RStrip(_)
RStrip(s) == IF s # <<>> /\ s[Len(s)] = " " THEN RStrip(SubSeq(s, 1, Len(s) - 1)) ELSE s

\* str.strip()
Strip(s) == RStrip(LStrip(s))

\* a < b for two texts (Python str comparison: by code point, then by length)
RECURSIVE TextLess(_, _)
TextLess(a, b) ==
    IF b = <<>> THEN FALSE
    ELSE IF a = <<>> THEN TRUE
    ELSE IF Head(a) = Head(b) THEN TextLess(Tail(a), Tail(b))
    ELSE Ord(Head(a)) < Ord(Head(b))

\* sorted(S, key=...) for a set whose keys are pairwise distinct: the element at
\* index i is the one with i - 1 elements before it
SortBy(S, Less(_, _)) ==
    [i \in 1..Cardinality(S) |->
        CHOOSE x \in S : Cardinality({y \in S : Less(y, x)}) = i - 1]

SeqRange(s) == {s[i] : i \in 1..Len(s)}

---------------------------------------------------------------------------
(* Row Normalizer *)

normalize_text(value) == IF value = None THEN <<>> ELSE Strip(value)

normalize_optional_text(value) ==
    LET normalized == normalize_text(value) IN PyOr(normalized, None)

\* mutant: the id is trimmed but not uppercased
normalize_route_id_NoUpper(value) == normalize_text(value)

normalize_route_id(value) == Upper(normalize_text(value))

DigitChars == {"0", "1", "2", "3", "4", "5", "6", "7", "8", "9"}

IsDigits(s) == \A i \in 1..Len(s) : s[i] \in DigitChars

Unsigned(s) == IF s # <<>> /\ Head(s) \in {"+", "-"} THEN Tail(s) ELSE s

IsNegative(s) == s # <<>> /\ Head(s) = "-"

DotAt(s) == IF \E i \in 1..Len(s) : s[i] = "."
            THEN CHOOSE i \in 1..Len(s) : s[i] = "." /\ \A j \in 1..(i - 1) : s[j] # "."
            ELSE Len(s) + 1

IntDigits(u) == SubSeq(u, 1, DotAt(u) - 1)

FracDigits(u) == SubSeq(u, DotAt(u) + 1, Len(u))

\* float() accepts these words, in any letter case, with an optional sign
IsInfWord(u) == Upper(u) \in {<<"I", "N", "F">>, <<"I", "N", "F", "I", "N", "I", "T", "Y">>}

IsNanWord(u) == Upper(u) = <<"N", "A", "N">>

\* a decimal literal without exponent: digits, digits., .digits, digits.digits
IsDecimal(u) ==
    /\ IsDigits(IntDigits(u))
    /\ IsDigits(FracDigits(u))
    /\ Len(IntDigits(u)) + Len(FracDigits(u)) > 0

\* float(s) does not raise ValueError (s already stripped; texts of the model
\* hold no exponent and no underscore)
FloatParses(s) ==
    LET u == Unsigned(s) IN IsDecimal(u) \/ IsInfWord(u) \/ IsNanWord(u)

RECURSIVE DigitsValue(_)
DigitsValue(s) ==
    IF s = <<>> THEN 0
    ELSE 10 * DigitsValue(SubSeq(s, 1, Len(s) - 1)) + (IndexIn(DigitSeq, s[Len(s)]) - 1)

\* int(float(s)) for a decimal literal: truncation toward zero
IntOfFloat(s) ==
    LET v == DigitsValue(IntDigits(Unsigned(s))) IN IF IsNegative(s) THEN 0 - v ELSE v

\* int(float(normalized)) raises OverflowError, which parse_int_or_none does not catch
parse_int_raises(value) ==
    LET normalized == normalize_text(value)
    IN  normalized # <<>> /\ IsInfWord(Unsigned(normalized))

\* parse_int_or_none where it returns (int(float("nan")) raises ValueError: None)
parse_int_or_none(value) ==
    LET normalized == normalize_text(value)
    IN  IF normalized = <<>> THEN IntNone
        ELSE IF IsDecimal(Unsigned(normalized)) THEN Some(IntOfFloat(normalized))
        ELSE IntNone

parse_direction_id(value) ==
    LET raw == Upper(normalize_text(value))
    IN  IF raw = <<>> THEN 0
        ELSE IF raw = <<"N">> THEN 0
        ELSE IF raw = <<"S">> THEN 1
        ELSE LET parsed == parse_int_or_none(raw)
             IN  IF parsed \in {Some(0), Some(1)} THEN parsed[1] ELSE 0

parse_direction_raises(value) ==
    LET raw == Upper(normalize_text(value))
    IN  raw \notin {<<>>, <<"N">>, <<"S">>} /\ parse_int_raises(raw)

parse_numeric_or_none(value) ==
    LET normalized == normalize_text(value)
    IN  IF normalized = <<>> THEN None
        ELSE IF FloatParses(normalized) THEN normalized
        ELSE None

---------------------------------------------------------------------------
(* process_mode: the stops loop *)

MODE_DEFAULT_ROUTE_TYPE == [subway |-> 1, bus |-> 3, lirr |-> 2, mnr |-> 2]

Modes == {"subway", "bus", "lirr", "mnr"}

\* mutant: the parent value is ignored in every mode
CanonicalStationId_NoParent(m, raw_stop_id, normalized_parent) == raw_stop_id

\* station_id = raw_stop_id if mode == "bus" else (normalized_parent or raw_stop_id)
CanonicalStationId(m, raw_stop_id, normalized_parent) ==
    IF m = "bus" THEN raw_stop_id ELSE PyOr(normalized_parent, raw_stop_id)

\* normalized_name = normalize_text(stop_name) or raw_stop_id
NormalizedName(row) == PyOr(normalize_text(row.stop_name), normalize_text(row.stop_id))

NewStation(station_id, row) ==
    [stop_id        |-> station_id,
     stop_name      |-> NormalizedName(row),
     stop_lat       |-> parse_numeric_or_none(row.stop_lat),
     stop_lon       |-> parse_numeric_or_none(row.stop_lon),
     parent_station |-> PyOr(normalize_text(row.parent_station), None),
     child_stop_ids |-> {}]

\* mutant: coordinates the row gives overwrite the stored ones
FillStation_Overwrite(station, row) ==
    [station EXCEPT
        !.stop_name = IF ~Truthy(@) \/ @ = station.stop_id THEN NormalizedName(row) ELSE @,
        !.stop_lat  = IF @ = None \/ parse_numeric_or_none(row.stop_lat) # None
                      THEN parse_numeric_or_none(row.stop_lat) ELSE @,
        !.stop_lon  = IF @ = None THEN parse_numeric_or_none(row.stop_lon) ELSE @]

FillStation(station, row) ==
    [station EXCEPT
        !.stop_name = IF ~Truthy(@) \/ @ = station.stop_id THEN NormalizedName(row) ELSE @,
        !.stop_lat  = IF @ = None THEN parse_numeric_or_none(row.stop_lat) ELSE @,
        !.stop_lon  = IF @ = None THEN parse_numeric_or_none(row.stop_lon) ELSE @]

\* mutant: the station's own id is added instead of the row's raw stop id
AddChild_StationId(m, station, raw_stop_id) ==
    IF m # "bus" THEN [station EXCEPT !.child_stop_ids = @ \cup {station.stop_id}]
    ELSE station

\* mutant: the child id is added in bus mode too
AddChild_AnyMode(m, station, raw_stop_id) ==
    [station EXCEPT !.child_stop_ids = @ \cup {raw_stop_id}]

\* if mode != "bus": station["child_stop_ids"].add(raw_stop_id)
AddChild(m, station, raw_stop_id) ==
    IF m # "bus" THEN [station EXCEPT !.child_stop_ids = @ \cup {raw_stop_id}] ELSE station

StopRowKept(row) == normalize_text(row.stop_id) # <<>>

\* one iteration of the stops loop on a kept row: the new station_map
StationMapAfter(m, sm, row) ==
    LET raw_stop_id == normalize_text(row.stop_id)
        station_id  == CanonicalStationId(m, raw_stop_id, normalize_text(row.parent_station))
        station     == IF station_id \in DOMAIN sm THEN FillStation(sm[station_id], row)
                       ELSE NewStation(station_id, row)
    IN  DictPut(sm, station_id, AddChild(m, station, raw_stop_id))

\* raw_stop_to_station[raw_stop_id] = station_id
LookupAfter(m, lk, row) ==
    LET raw_stop_id == normalize_text(row.stop_id)
    IN  DictPut(lk, raw_stop_id,
                CanonicalStationId(m, raw_stop_id, normalize_text(row.parent_station)))

Bump(counter, table) == [counter EXCEPT ![table] = @ + 1]

---------------------------------------------------------------------------
(* process_mode: the routes loop *)

\* parse_int_or_none(route_type) or MODE_DEFAULT_ROUTE_TYPE[mode]
IncomingRouteType(m, value) ==
    LET parsed == parse_int_or_none(value)
    IN  IF parsed = IntNone \/ parsed = Some(0) THEN MODE_DEFAULT_ROUTE_TYPE[m]
        ELSE parsed[1]

IncomingRoute(m, row) ==
    [route_id         |-> normalize_route_id(row.route_id),
     agency_id        |-> normalize_optional_text(row.agency_id),
     route_short_name |-> normalize_text(row.route_short_name),
     route_long_name  |-> normalize_text(row.route_long_name),
     route_desc       |-> normalize_optional_text(row.route_desc),
     route_type       |-> IncomingRouteType(m, row.route_type),
     route_url        |-> normalize_optional_text(row.route_url),
     route_color      |-> normalize_optional_text(row.route_color),
     route_text_color |-> normalize_optional_text(row.route_text_color),
     route_sort_order |-> parse_int_or_none(row.route_sort_order)]

\* mutant: a populated incoming value overwrites the stored one
FillText_Overwrite(old, new) == IF Truthy(new) THEN new ELSE old

\* if not existing[f] and incoming[f]: existing[f] = incoming[f]
FillText(old, new) == IF ~Truthy(old) /\ Truthy(new) THEN new ELSE old

\* mutant: any non-default incoming type replaces the stored one
MergeType_LastWins(m, old, new) == IF new # MODE_DEFAULT_ROUTE_TYPE[m] THEN new ELSE old

\* the route_type rule of the merge
MergeType(m, old, new) ==
    IF old = MODE_DEFAULT_ROUTE_TYPE[m] /\ new # MODE_DEFAULT_ROUTE_TYPE[m] THEN new ELSE old

\* if existing[f] is None and incoming[f] is not None: existing[f] = incoming[f]
FillInt(old, new) == IF old = IntNone /\ new # IntNone THEN new ELSE old

MergeRoute(m, existing, incoming) ==
    [route_id         |-> existing.route_id,
     agency_id        |-> FillText(existing.agency_id, incoming.agency_id),
     route_short_name |-> FillText(existing.route_short_name, incoming.route_short_name),
     route_long_name  |-> FillText(existing.route_long_name, incoming.route_long_name),
     route_desc       |-> FillText(existing.route_desc, incoming.route_desc),
     route_type       |-> MergeType(m, existing.route_type, incoming.route_type),
     route_url        |-> FillText(existing.route_url, incoming.route_url),
     route_color      |-> FillText(existing.route_color, incoming.route_color),
     route_text_color |-> FillText(existing.route_text_color, incoming.route_text_color),
     route_sort_order |-> FillInt(existing.route_sort_order, incoming.route_sort_order)]

RouteRowKept(row) == normalize_route_id(row.route_id) # <<>>

\* building `incoming` raises before route_map is touched
RouteRowRaises(row) ==
    parse_int_raises(row.route_type) \/ parse_int_raises(row.route_sort_order)

\* one iteration of the routes loop on a kept row: the new route_map
RouteMapAfter(m, rm, row) ==
    LET incoming == IncomingRoute(m, row)
        id       == incoming.route_id
    IN  IF id \in DOMAIN rm THEN DictPut(rm, id, MergeRoute(m, rm[id], incoming))
        ELSE DictPut(rm, id, incoming)

---------------------------------------------------------------------------
(* process_mode: the trips loop *)

TripRowKept(row) ==
    normalize_text(row.trip_id) # <<>> /\ normalize_route_id(row.route_id) # <<>>

TripRowRaises(row) == parse_direction_raises(row.direction_id)

TripMapAfter(tm, row) ==
    DictPut(tm, normalize_text(row.trip_id),
            <<normalize_route_id(row.route_id), parse_direction_id(row.direction_id)>>)

---------------------------------------------------------------------------
(* process_mode: the stop_times loop *)

\* mutant: only the trip id is required
StopTimeRowKept_TripOnly(row) == normalize_text(row.trip_id) # <<>>

\* if not normalized_trip_id or not raw_stop_id: continue
StopTimeRowKept(row) ==
    normalize_text(row.trip_id) # <<>> /\ normalize_text(row.stop_id) # <<>>

TripResolves(tm, row) == normalize_text(row.trip_id) \in DOMAIN tm

\* station_stop_id = raw_stop_to_station.get(raw_stop_id, raw_stop_id)
StationStopId(lk, raw_stop_id) ==
    IF raw_stop_id \in DOMAIN lk THEN lk[raw_stop_id] ELSE raw_stop_id

\* mutant: the membership test is left out
StopResolves_Always(sm, lk, row) == TRUE

StopResolves(sm, lk, row) == StationStopId(lk, normalize_text(row.stop_id)) \in DOMAIN sm

\* mutant: the key holds the raw stop id instead of the station id
RouteStopKey_RawStop(tm, lk, row) ==
    LET trip_lookup == tm[normalize_text(row.trip_id)]
    IN  <<trip_lookup[1], trip_lookup[2], normalize_text(row.stop_id)>>

RouteStopKey(tm, lk, row) ==
    LET trip_lookup == tm[normalize_text(row.trip_id)]
    IN  <<trip_lookup[1], trip_lookup[2], StationStopId(lk, normalize_text(row.stop_id))>>

\* route_stop_map.get(route_stop_key)
ExistingSequence(rsm, key) == IF key \in DOMAIN rsm THEN rsm[key] ELSE IntNone

\* mutant: a concrete incoming sequence always replaces the stored one
MergedSequence_LastWins(existing_sequence, next_sequence) ==
    IF next_sequence # IntNone THEN next_sequence ELSE existing_sequence

\* mutant: the comparison is turned around
MergedSequence_Largest(existing_sequence, next_sequence) ==
    IF existing_sequence = IntNone THEN next_sequence
    ELSE IF next_sequence # IntNone /\ next_sequence[1] > existing_sequence[1] THEN next_sequence
    ELSE existing_sequence

\* the value route_stop_map[route_stop_key] holds after the update
MergedSequence(existing_sequence, next_sequence) ==
    IF existing_sequence = IntNone THEN next_sequence
    ELSE IF next_sequence # IntNone /\ next_sequence[1] < existing_sequence[1] THEN next_sequence
    ELSE existing_sequence

\* the update writes only in its two assigning branches: a key absent from the
\* map is created by the first, never by the second
RouteStopMapAfter(rsm, key, next_sequence) ==
    DictPut(rsm, key, MergedSequence(ExistingSequence(rsm, key), next_sequence))

---------------------------------------------------------------------------
(* process_mode: emission *)

SAMPLE_LIMIT == 50

\* the stand-in for an absent sequence in route_stop_sort_key: 2**31 - 1
ABSENT_SORT_SEQUENCE == 2147483647

ChildIds(m, station) ==
    IF m = "bus" THEN <<>>
    ELSE LET child_ids == SortBy(station.child_stop_ids, TextLess)
         IN  IF child_ids = <<>> THEN <<station.stop_id>> ELSE child_ids

StationRow(m, station) ==
    [stop_id             |-> station.stop_id,
     stop_name           |-> PyOr(station.stop_name, station.stop_id),
     stop_lat            |-> station.stop_lat,
     stop_lon            |-> station.stop_lon,
     parent_station      |-> station.parent_station,
     child_stop_ids_json |-> ChildIds(m, station)]

StationsRows(m, sm) ==
    LET ids == SortBy(DOMAIN sm, TextLess)
    IN  [i \in 1..Len(ids) |-> StationRow(m, sm[ids[i]])]

RoutesRows(rm) ==
    LET ids == SortBy(DOMAIN rm, TextLess)
    IN  [i \in 1..Len(ids) |-> rm[ids[i]]]

\* route_stop_sort_key of the item (key, stop_sequence)
route_stop_sort_key(key, stop_sequence) ==
    <<key[1], key[2],
      IF stop_sequence # IntNone THEN stop_sequence[1] ELSE ABSENT_SORT_SEQUENCE,
      key[3]>>

\* a < b for two sort keys (Python tuple comparison)
SortKeyLess(a, b) ==
    IF a[1] # b[1] THEN TextLess(a[1], b[1])
    ELSE IF a[2] # b[2] THEN a[2] < b[2]
    ELSE IF a[3] # b[3] THEN a[3] < b[3]
    ELSE TextLess(a[4], b[4])

RouteStopsRows(rsm) ==
    LET Before(k1, k2) == SortKeyLess(route_stop_sort_key(k1, rsm[k1]),
                                      route_stop_sort_key(k2, rsm[k2]))
        keys == SortBy(DOMAIN rsm, Before)
    IN  [i \in 1..Len(keys) |->
            [route_id              |-> keys[i][1],
             direction_id          |-> keys[i][2],
             stop_id               |-> keys[i][3],
             route_stop_sort_order |-> rsm[keys[i]]]]

\* sorted(list(missing_stop_ids))[:50]
SampleMissingStopIds(ids) ==
    LET sorted == SortBy(ids, TextLess)
    IN  SubSeq(sorted, 1, IF Len(sorted) < SAMPLE_LIMIT THEN Len(sorted) ELSE SAMPLE_LIMIT)

ProcessModeResult(m, sm, rm, rsm, refs, ids) ==
    [counts   |-> [stations   |-> Len(StationsRows(m, sm)),
                   routes     |-> Len(RoutesRows(rm)),
                   routeStops |-> Len(RouteStopsRows(rsm))],
     warnings |-> [missingTripRefs      |-> refs,
                   missingStopRefs      |-> Cardinality(ids),
                   sampleMissingStopIds |-> SampleMissingStopIds(ids)],
     missing_stop_ids |-> ids,
     stations_rows    |-> StationsRows(m, sm),
     routes_rows      |-> RoutesRows(rm),
     route_stops_rows |-> RouteStopsRows(rsm)]

---------------------------------------------------------------------------
(* Bounds and input cells *)

MaxStopRows == 3

NoRow == [table |-> "none"]

NoRowsParsed == [stops |-> 0, routes |-> 0, trips |-> 0, stop_times |-> 0]

NoCounts == [unresolved |-> 0, unresolved_kept |-> 0]

StopIdCells == {None, <<"A">>, <<" ", "A">>, <<"P">>}

StopNameCells == {None, <<"N">>}

ParentCells == {None, <<" ">>, <<"P">>}

StopRow(id, name, lat, lon, parent) ==
    [table |-> "stops", stop_id |-> id, stop_name |-> name, stop_lat |-> lat,
     stop_lon |-> lon, parent_station |-> parent]

\* stop rows of the clustering runs
ClusterStopRows ==
    {StopRow(id, name, None, None, parent) :
        id \in StopIdCells, name \in StopNameCells, parent \in ParentCells}

---------------------------------------------------------------------------
(* process_mode as a state machine: one action per loop iteration *)

\* main is not running: process_mode is driven directly
MainIdle ==
    /\ main_pc = "none"
    /\ main_mode = ""
    /\ bus_index = 0
    /\ dirs = EmptyDict
    /\ loaded = EmptyDict
    /\ conn = "none"
    /\ sink_log = <<>>
    /\ tx = EmptyDict
    /\ committed = EmptyDict
    /\ report = EmptyDict
    /\ bus_acc = EmptyDict
    /\ main_err = ""

\* process_mode's locals after lines 142-147 and 184-189
ProcessModeEntry(m) ==
    /\ mode = m
    /\ station_map = EmptyDict
    /\ raw_stop_to_station = EmptyDict
    /\ route_map = EmptyDict
    /\ trip_map = EmptyDict
    /\ route_stop_map = EmptyDict
    /\ missing_trip_refs = 0
    /\ missing_stop_ids = {}
    /\ result = EmptyDict
    /\ rows_parsed = NoRowsParsed
    /\ cur_row = NoRow
    /\ stop_log = <<>>
    /\ route_seen = EmptyDict
    /\ st_seen = EmptyDict
    /\ st_count = NoCounts

\* one iteration of the stops loop (lines 191-225) on a row of `pool`
StopsLoop(pool, limit) ==
    /\ pc = "stops"
    /\ rows_parsed.stops < limit
    /\ \E row \in pool :
        /\ cur_row' = row
        /\ rows_parsed' = Bump(rows_parsed, "stops")
        /\ IF StopRowKept(row)
           THEN /\ station_map' = StationMapAfter(mode, station_map, row)
                /\ raw_stop_to_station' = LookupAfter(mode, raw_stop_to_station, row)
                /\ stop_log' = Append(stop_log, <<normalize_text(row.stop_id),
                                                  normalize_text(row.parent_station),
                                                  normalize_text(row.stop_name)>>)
           ELSE UNCHANGED <<station_map, raw_stop_to_station, stop_log>>
    /\ UNCHANGED <<mode, pc, route_map, trip_map, route_stop_map, missing_trip_refs,
                   missing_stop_ids, result, route_seen, st_seen, st_count, main_vars>>

\* the remaining tables hold no more rows: lines 348-419
Return ==
    /\ pc \in {"stops", "routes", "trips", "stop_times"}
    /\ pc' = "done"
    /\ result' = ProcessModeResult(mode, station_map, route_map, route_stop_map,
                                   missing_trip_refs, missing_stop_ids)
    /\ UNCHANGED <<mode, station_map, raw_stop_to_station, route_map, trip_map,
                   route_stop_map, missing_trip_refs, missing_stop_ids, rows_parsed,
                   cur_row, hist_vars, main_vars>>

---------------------------------------------------------------------------
(* Station clustering: process_mode on datasets whose stops table varies *)

InitStops ==
    /\ MainIdle
    /\ pc = "stops"
    /\ \E m \in Modes : ProcessModeEntry(m)

ClusterStops == StopsLoop(ClusterStopRows, MaxStopRows)

NextStops == ClusterStops \/ Return

SpecStops == InitStops /\ [][NextStops]_vars

---------------------------------------------------------------------------
(* Station filling: process_mode on datasets whose stop rows repeat a station with
   other names and coordinates *)

MaxFillRows == 3

\* stop rows of stations "A" and "P" ("A" alone or as a child of "P"), with no
\* name, the name "N" or the name "A", and with no, one or both coordinates
FillStopRows ==
    {StopRow(ip[1], name, ll[1], ll[2], ip[2]) :
        ip \in {<<(<<"A">>), None>>, <<(<<"A">>), (<<"P">>)>>, <<(<<"P">>), None>>},
        name \in {None, <<"N">>, <<"A">>},
        ll \in {<<None, None>>, <<(<<"1">>), None>>, <<(<<"2">>), (<<"1">>)>>}}

NextFill == StopsLoop(FillStopRows, MaxFillRows) \/ Return

SpecFill == InitStops /\ [][NextFill]_vars

---------------------------------------------------------------------------
(* Route merging: process_mode on datasets whose routes table varies *)

MaxRouteRows == 3

X == <<"x">>

Y == <<"y">>

RouteIdCells == {<<" ">>, <<"a">>, <<"A", " ">>, <<"B">>}

\* agency_id, route_short_name, route_long_name, route_desc, route_url,
\* route_color, route_text_color of one row
RouteTextCells ==
    {<<None, <<" ">>, None, <<>>, None, None, <<" ">>>>,
     <<X, X, X, X, X, X, X>>,
     <<Y, Y, Y, Y, Y, Y, Y>>,
     <<X, None, X, None, X, None, X>>,
     <<None, Y, <<" ">>, Y, None, Y, None>>}

RouteTypeCells == {None, <<"0">>, <<"2">>, <<"3", ".", "0">>, <<"i", "n", "f">>}

SortOrderCells == {None, <<"0">>, <<"5">>}

RouteRow(id, texts, type, sort) ==
    [table |-> "routes", route_id |-> id, agency_id |-> texts[1],
     route_short_name |-> texts[2], route_long_name |-> texts[3],
     route_desc |-> texts[4], route_type |-> type, route_url |-> texts[5],
     route_color |-> texts[6], route_text_color |-> texts[7],
     route_sort_order |-> sort]

BlankRouteTexts == <<None, <<" ">>, None, <<>>, None, None, <<" ">>>>

\* route rows of the merging runs: rows that vary the seven text fields, and rows
\* that vary route_type and route_sort_order
MergeRouteRows ==
    {RouteRow(id, texts, None, None) : id \in RouteIdCells, texts \in RouteTextCells}
    \cup
    {RouteRow(id, BlankRouteTexts, type, sort) :
        id \in RouteIdCells, type \in RouteTypeCells, sort \in SortOrderCells}

\* the history of a route id: the types of its incoming records, in row order
SeenAfter(seen, incoming) ==
    DictPut(seen, incoming.route_id,
            IF incoming.route_id \in DOMAIN seen
            THEN Append(seen[incoming.route_id], incoming.route_type)
            ELSE <<incoming.route_type>>)

\* one iteration of the routes loop (lines 227-292) on a row of `pool`
RoutesLoop(pool, limit) ==
    /\ pc = "routes"
    /\ rows_parsed.routes < limit
    /\ \E row \in pool :
        /\ rows_parsed' = Bump(rows_parsed, "routes")
        /\ IF ~RouteRowKept(row)
           THEN UNCHANGED <<pc, route_map, route_seen>>
           ELSE IF RouteRowRaises(row)
           THEN pc' = "raised" /\ UNCHANGED <<route_map, route_seen>>
           ELSE /\ route_map' = RouteMapAfter(mode, route_map, row)
                /\ route_seen' = SeenAfter(route_seen, IncomingRoute(mode, row))
                /\ pc' = pc
    /\ UNCHANGED <<mode, station_map, raw_stop_to_station, trip_map, route_stop_map,
                   missing_trip_refs, missing_stop_ids, result, cur_row, stop_log,
                   st_seen, st_count, main_vars>>

InitRoutes ==
    /\ MainIdle
    /\ pc = "routes"
    /\ \E m \in Modes : ProcessModeEntry(m)

MergeRoutes == RoutesLoop(MergeRouteRows, MaxRouteRows)

NextRoutes == MergeRoutes \/ Return

SpecRoutes == InitRoutes /\ [][NextRoutes]_vars

---------------------------------------------------------------------------
(* Sequencing: process_mode on a dataset whose stop_times table varies *)

MaxStopTimeRows == 3

\* stops.txt of the sequencing runs: "A" is a child of "P", "B" stands alone,
\* and no row has stop id "P"
SequencingStops ==
    <<StopRow(<<"A">>, <<"N">>, None, None, <<"P">>),
      StopRow(<<"B">>, None, None, None, None)>>

TripRow(id, route, direction) ==
    [table |-> "trips", trip_id |-> id, route_id |-> route, direction_id |-> direction]

\* trips.txt of the sequencing runs: T1 and T2 run route R in directions 0 and 1,
\* T3 has no route id
SequencingTrips ==
    <<TripRow(<<"T", "1">>, <<"r">>, None),
      TripRow(<<"T", "2">>, <<"R", " ">>, <<"S">>),
      TripRow(<<"T", "3">>, <<" ">>, <<"1">>)>>

StopTimeRow(trip, stop, sequence) ==
    [table |-> "stop_times", trip_id |-> trip, stop_id |-> stop, stop_sequence |-> sequence]

TripCells == {None, <<"T", "1">>, <<" ", "T", "2">>, <<"T", "3">>}

StopCells == {<<" ">>, <<"A">>, <<"B">>, <<"P">>, <<"Z">>}

SequenceCells == {None, <<"1">>, <<"3", ".", "0">>,
                  <<"2", "1", "4", "7", "4", "8", "3", "6", "4", "7">>, <<"i", "n", "f">>}

\* stop_times.txt rows of the sequencing runs: rows that vary the two ids, and
\* rows of trips T1 and T2 that vary the sequence
SequencingStopTimeRows ==
    {StopTimeRow(trip, stop, <<"3", ".", "0">>) : trip \in TripCells, stop \in StopCells}
    \cup
    {StopTimeRow(trip, stop, sequence) :
        trip \in {<<"T", "1">>}, stop \in {<<"A">>, <<"B">>}, sequence \in SequenceCells}
    \cup
    {StopTimeRow(<<" ", "T", "2">>, <<"B">>, sequence) : sequence \in {None, <<"1">>}}

\* the stops loop run over a whole table
RECURSIVE StationMapOf(_, _)
StationMapOf(m, rows) ==
    IF rows = <<>> THEN EmptyDict
    ELSE LET before == StationMapOf(m, SubSeq(rows, 1, Len(rows) - 1))
             row    == rows[Len(rows)]
         IN  IF StopRowKept(row) THEN StationMapAfter(m, before, row) ELSE before

RECURSIVE LookupOf(_, _)
LookupOf(m, rows) ==
    IF rows = <<>> THEN EmptyDict
    ELSE LET before == LookupOf(m, SubSeq(rows, 1, Len(rows) - 1))
             row    == rows[Len(rows)]
         IN  IF StopRowKept(row) THEN LookupAfter(m, before, row) ELSE before

\* the trips loop run over a whole table none of whose rows raises
RECURSIVE TripMapOf(_)
TripMapOf(rows) ==
    IF rows = <<>> THEN EmptyDict
    ELSE LET before == TripMapOf(SubSeq(rows, 1, Len(rows) - 1))
             row    == rows[Len(rows)]
         IN  IF TripRowKept(row) THEN TripMapAfter(before, row) ELSE before

\* history: the parsed sequence of a row joins those observed for its key
ObservedAfter(seen, key, next_sequence) ==
    DictPut(seen, key, (IF key \in DOMAIN seen THEN seen[key] ELSE {}) \cup {next_sequence})

\* the row names a trip of the trip table
TripKnown(row) == normalize_text(row.trip_id) \in DOMAIN trip_map

\* the row has a non-blank trip id and a non-blank stop id
BothIdsGiven(row) == normalize_text(row.trip_id) # <<>> /\ normalize_text(row.stop_id) # <<>>

\* history: the rows whose trip id does not resolve, all of them and those with
\* both ids given
CountsAfter(counts, row) ==
    [unresolved      |-> counts.unresolved + (IF TripKnown(row) THEN 0 ELSE 1),
     unresolved_kept |-> counts.unresolved_kept
                         + (IF BothIdsGiven(row) /\ ~TripKnown(row) THEN 1 ELSE 0)]

\* one iteration of the stop_times loop (lines 305-334) on a row of `pool`
StopTimesLoop(pool, limit) ==
    /\ pc = "stop_times"
    /\ rows_parsed.stop_times < limit
    /\ \E row \in pool :
        /\ cur_row' = row
        /\ rows_parsed' = Bump(rows_parsed, "stop_times")
        /\ st_count' = CountsAfter(st_count, row)
        /\ IF ~StopTimeRowKept(row)
           THEN UNCHANGED <<pc, missing_trip_refs, missing_stop_ids, route_stop_map, st_seen>>
           ELSE IF ~TripResolves(trip_map, row)
           THEN /\ missing_trip_refs' = missing_trip_refs + 1
                /\ UNCHANGED <<pc, missing_stop_ids, route_stop_map, st_seen>>
           ELSE IF ~StopResolves(station_map, raw_stop_to_station, row)
           THEN /\ missing_stop_ids' = missing_stop_ids \cup {normalize_text(row.stop_id)}
                /\ UNCHANGED <<pc, missing_trip_refs, route_stop_map, st_seen>>
           ELSE IF parse_int_raises(row.stop_sequence)
           THEN /\ pc' = "raised"
                /\ UNCHANGED <<missing_trip_refs, missing_stop_ids, route_stop_map, st_seen>>
           ELSE LET key == RouteStopKey(trip_map, raw_stop_to_station, row)
                    next_sequence == parse_int_or_none(row.stop_sequence)
                IN  /\ route_stop_map' = RouteStopMapAfter(route_stop_map, key, next_sequence)
                    /\ st_seen' = ObservedAfter(st_seen, key, next_sequence)
                    /\ UNCHANGED <<pc, missing_trip_refs, missing_stop_ids>>
    /\ UNCHANGED <<mode, station_map, raw_stop_to_station, route_map, trip_map, result,
                   stop_log, route_seen, main_vars>>

\* the routes loop run over a whole table
RECURSIVE RouteMapOf(_, _)
RouteMapOf(m, rows) ==
    IF rows = <<>> THEN EmptyDict
    ELSE LET before == RouteMapOf(m, SubSeq(rows, 1, Len(rows) - 1))
             row    == rows[Len(rows)]
         IN  IF RouteRowKept(row) THEN RouteMapAfter(m, before, row) ELSE before

\* routes.txt of the sequencing runs: "r" and " R " name one route, one row has a
\* blank id, "b" is a route no trip runs
SequencingRoutes ==
    <<RouteRow(<<"r">>, <<X, None, None, None, None, None, None>>, None, None),
      RouteRow(<<" ", "R", " ">>, <<Y, Y, None, None, None, None, None>>, <<"2">>, <<"5">>),
      RouteRow(<<" ">>, <<Y, Y, Y, Y, Y, Y, Y>>, <<"2">>, <<"5">>),
      RouteRow(<<"b">>, <<None, X, None, None, None, None, None>>, None, None)>>

\* process_mode at line 305, the stops, routes and trips tables consumed
InitSequencing ==
    /\ MainIdle
    /\ pc = "stop_times"
    /\ mode \in Modes
    /\ station_map = StationMapOf(mode, SequencingStops)
    /\ raw_stop_to_station = LookupOf(mode, SequencingStops)
    /\ route_map = RouteMapOf(mode, SequencingRoutes)
    /\ trip_map = TripMapOf(SequencingTrips)
    /\ route_stop_map = EmptyDict
    /\ missing_trip_refs = 0
    /\ missing_stop_ids = {}
    /\ result = EmptyDict
    /\ rows_parsed = [NoRowsParsed EXCEPT !.stops = Len(SequencingStops),
                                          !.routes = Len(SequencingRoutes),
                                          !.trips = Len(SequencingTrips)]
    /\ cur_row = NoRow
    /\ stop_log = <<>>
    /\ route_seen = EmptyDict
    /\ st_seen = EmptyDict
    /\ st_count = NoCounts

SequenceStopTimes == StopTimesLoop(SequencingStopTimeRows, MaxStopTimeRows)

NextSequencing == SequenceStopTimes \/ Return

SpecSequencing == InitSequencing /\ [][NextSequencing]_vars

---------------------------------------------------------------------------
(* process_mode as a function of one dataset, as main calls it *)

REQUIRED_COLUMNS ==
    [stops      |-> {"stop_id", "stop_name"},
     routes     |-> {"route_id"},
     trips      |-> {"trip_id", "route_id"},
     stop_times |-> {"trip_id", "stop_id"}]

Tables == {"stops", "routes", "trips", "stop_times"}

\* require_columns: the required columns the table lacks
MissingColumns(columns, required) == required \ columns

\* one of the four require_columns calls raises
RequireColumnsRaises(dataset) ==
    \E t \in Tables : MissingColumns(dataset.columns[t], REQUIRED_COLUMNS[t]) # {}

\* the stop_times loop run over a whole table: the assignment map, the counter
\* and the missing-stop-ids set
RECURSIVE SequencedOf(_, _, _, _)
SequencedOf(sm, lk, tm, rows) ==
    IF rows = <<>>
    THEN [route_stop_map |-> EmptyDict, missing_trip_refs |-> 0, missing_stop_ids |-> {}]
    ELSE LET before == SequencedOf(sm, lk, tm, SubSeq(rows, 1, Len(rows) - 1))
             row    == rows[Len(rows)]
         IN  IF ~StopTimeRowKept(row) THEN before
             ELSE IF ~TripResolves(tm, row)
             THEN [before EXCEPT !.missing_trip_refs = @ + 1]
             ELSE IF ~StopResolves(sm, lk, row)
             THEN [before EXCEPT !.missing_stop_ids = @ \cup {normalize_text(row.stop_id)}]
             ELSE [before EXCEPT !.route_stop_map =
                      RouteStopMapAfter(@, RouteStopKey(tm, lk, row),
                                        parse_int_or_none(row.stop_sequence))]

\* some row makes parse_int_or_none raise OverflowError
RowRaises(m, dataset) ==
    LET sm == StationMapOf(m, dataset.stops)
        lk == LookupOf(m, dataset.stops)
        tm == TripMapOf(dataset.trips)
    IN  \/ \E i \in 1..Len(dataset.routes) :
              RouteRowKept(dataset.routes[i]) /\ RouteRowRaises(dataset.routes[i])
        \/ \E i \in 1..Len(dataset.trips) :
              TripRowKept(dataset.trips[i]) /\ TripRowRaises(dataset.trips[i])
        \/ \E i \in 1..Len(dataset.stop_times) :
              LET row == dataset.stop_times[i]
              IN  /\ StopTimeRowKept(row)
                  /\ TripResolves(tm, row)
                  /\ StopResolves(sm, lk, row)
                  /\ parse_int_raises(row.stop_sequence)

MissingColumnsError == "RuntimeError: Missing required columns"

\* the exception process_mode(mode, [dataset_dir], label) ends with, "" if none:
\* the four require_columns calls precede the row loops
ProcessModeError(m, dataset) ==
    IF RequireColumnsRaises(dataset) THEN MissingColumnsError
    ELSE IF RowRaises(m, dataset) THEN "OverflowError"
    ELSE ""

\* the value process_mode(mode, [dataset_dir], label) returns
ProcessModeOf(m, dataset) ==
    LET sm  == StationMapOf(m, dataset.stops)
        lk  == LookupOf(m, dataset.stops)
        seq == SequencedOf(sm, lk, TripMapOf(dataset.trips), dataset.stop_times)
    IN  ProcessModeResult(m, sm, RouteMapOf(m, dataset.routes), seq.route_stop_map,
                          seq.missing_trip_refs, seq.missing_stop_ids)

---------------------------------------------------------------------------
(* The sink: the twelve tables, three per mode, each a dict from its key to a row *)

NoTables == [stations |-> EmptyDict, routes |-> EmptyDict, route_stops |-> EmptyDict]

\* TRUNCATE TABLE over the twelve tables
clear_mta_tables(tables) == [m \in Modes |-> NoTables]

RouteStopKeyOf(row) == <<row.route_id, row.direction_id, row.stop_id>>

StationKeyOf(row) == row.stop_id

RouteKeyOf(row) == row.route_id

KeysOf(rows, KeyOf(_)) == {KeyOf(rows[i]) : i \in 1..Len(rows)}

RowWithKey(rows, KeyOf(_), k) == rows[CHOOSE i \in 1..Len(rows) : KeyOf(rows[i]) = k]

\* INSERT INTO table VALUES rows (the keys of one result are pairwise distinct and
\* the table was truncated in the same transaction)
InsertRows(table, rows, KeyOf(_)) ==
    [k \in (DOMAIN table) \cup KeysOf(rows, KeyOf) |->
        IF k \in KeysOf(rows, KeyOf) THEN RowWithKey(rows, KeyOf, k) ELSE table[k]]

\* INSERT ... ON CONFLICT (key) DO UPDATE SET ..., Merge giving the updated row
UpsertRows(table, rows, KeyOf(_), Merge(_, _)) ==
    [k \in (DOMAIN table) \cup KeysOf(rows, KeyOf) |->
        IF k \notin KeysOf(rows, KeyOf) THEN table[k]
        ELSE IF k \in DOMAIN table THEN Merge(table[k], RowWithKey(rows, KeyOf, k))
        ELSE RowWithKey(rows, KeyOf, k)]

insert_non_bus_mode(tables, res) ==
    [stations    |-> InsertRows(tables.stations, res.stations_rows, StationKeyOf),
     routes      |-> InsertRows(tables.routes, res.routes_rows, RouteKeyOf),
     route_stops |-> InsertRows(tables.route_stops, res.route_stops_rows, RouteStopKeyOf)]

\* COALESCE(a, b) over a text column
Coalesce(a, b) == IF a # None THEN a ELSE b

\* COALESCE(a, b) over an integer column
CoalesceInt(a, b) == IF a # IntNone THEN a ELSE b

\* NULLIF(a, '')
NullIfEmpty(a) == IF a = <<>> THEN None ELSE a

\* mutant: the stored coordinates and parent are preferred to the incoming ones
StationConflict_StoredFirst(stored, excluded) ==
    [stop_id             |-> stored.stop_id,
     stop_name           |-> excluded.stop_name,
     stop_lat            |-> Coalesce(stored.stop_lat, excluded.stop_lat),
     stop_lon            |-> Coalesce(stored.stop_lon, excluded.stop_lon),
     parent_station      |-> Coalesce(stored.parent_station, excluded.parent_station),
     child_stop_ids_json |-> excluded.child_stop_ids_json]

\* mutant: the latitude is set from the incoming longitude column
StationConflict_LonIntoLat(stored, excluded) ==
    [stop_id             |-> stored.stop_id,
     stop_name           |-> excluded.stop_name,
     stop_lat            |-> Coalesce(excluded.stop_lon, stored.stop_lat),
     stop_lon            |-> Coalesce(excluded.stop_lon, stored.stop_lon),
     parent_station      |-> Coalesce(excluded.parent_station, stored.parent_station),
     child_stop_ids_json |-> excluded.child_stop_ids_json]

\* ON CONFLICT (stop_id) DO UPDATE SET ... (imported_at is not modelled)
StationConflict(stored, excluded) ==
    [stop_id             |-> stored.stop_id,
     stop_name           |-> excluded.stop_name,
     stop_lat            |-> Coalesce(excluded.stop_lat, stored.stop_lat),
     stop_lon            |-> Coalesce(excluded.stop_lon, stored.stop_lon),
     parent_station      |-> Coalesce(excluded.parent_station, stored.parent_station),
     child_stop_ids_json |-> excluded.child_stop_ids_json]

\* mutant: the stored values are preferred to the incoming ones
RouteConflict_StoredFirst(stored, excluded) ==
    [route_id         |-> stored.route_id,
     agency_id        |-> Coalesce(stored.agency_id, excluded.agency_id),
     route_short_name |-> Coalesce(NullIfEmpty(stored.route_short_name),
                                   excluded.route_short_name),
     route_long_name  |-> Coalesce(NullIfEmpty(stored.route_long_name),
                                   excluded.route_long_name),
     route_desc       |-> Coalesce(stored.route_desc, excluded.route_desc),
     route_type       |-> excluded.route_type,
     route_url        |-> Coalesce(stored.route_url, excluded.route_url),
     route_color      |-> Coalesce(stored.route_color, excluded.route_color),
     route_text_color |-> Coalesce(stored.route_text_color, excluded.route_text_color),
     route_sort_order |-> CoalesceInt(stored.route_sort_order, excluded.route_sort_order)]

\* ON CONFLICT (route_id) DO UPDATE SET ... (imported_at is not modelled)
RouteConflict(stored, excluded) ==
    [route_id         |-> stored.route_id,
     agency_id        |-> Coalesce(excluded.agency_id, stored.agency_id),
     route_short_name |-> Coalesce(NullIfEmpty(excluded.route_short_name),
                                   stored.route_short_name),
     route_long_name  |-> Coalesce(NullIfEmpty(excluded.route_long_name),
                                   stored.route_long_name),
     route_desc       |-> Coalesce(excluded.route_desc, stored.route_desc),
     route_type       |-> excluded.route_type,
     route_url        |-> Coalesce(excluded.route_url, stored.route_url),
     route_color      |-> Coalesce(excluded.route_color, stored.route_color),
     route_text_color |-> Coalesce(excluded.route_text_color, stored.route_text_color),
     route_sort_order |-> CoalesceInt(excluded.route_sort_order, stored.route_sort_order)]

\* mutant: the conflicting row is updated from the incoming one
RouteStopConflict_Update(stored, excluded) == excluded

\* ON CONFLICT DO NOTHING
RouteStopConflict(stored, excluded) == stored

\* the unique key of the route_stops tables, whose definition is outside the
\* importer: one row per (route id, direction, station id)
RouteStopsUniqueKey(row) == RouteStopKeyOf(row)

upsert_bus_mode(tables, res) ==
    [stations    |-> UpsertRows(tables.stations, res.stations_rows, StationKeyOf,
                                StationConflict),
     routes      |-> UpsertRows(tables.routes, res.routes_rows, RouteKeyOf, RouteConflict),
     route_stops |-> UpsertRows(tables.route_stops, res.route_stops_rows,
                                RouteStopsUniqueKey, RouteStopConflict)]

---------------------------------------------------------------------------
(* main as a state machine *)

MaxDirs == 2

AllColumns ==
    [stops      |-> {"stop_id", "stop_name", "stop_lat", "stop_lon", "parent_station"},
     routes     |-> {"route_id", "agency_id", "route_short_name", "route_long_name",
                     "route_desc", "route_type", "route_url", "route_color",
                     "route_text_color", "route_sort_order"},
     trips      |-> {"trip_id", "route_id", "direction_id"},
     stop_times |-> {"trip_id", "stop_id", "stop_sequence"}]

DatasetA ==
    [columns    |-> AllColumns,
     stops      |-> <<StopRow(<<"A">>, <<"N">>, <<"9">>, None, <<"P">>),
                      StopRow(<<"B">>, None, None, None, None)>>,
     routes     |-> <<RouteRow(<<"r">>, <<X, None, X, None, X, None, X>>, <<"2">>, <<"0">>),
                      RouteRow(<<"R", " ">>, BlankRouteTexts, None, <<"5">>)>>,
     trips      |-> SequencingTrips,
     stop_times |-> <<StopTimeRow(<<"T", "1">>, <<"A">>, <<"3", ".", "0">>),
                      StopTimeRow(<<"T", "1">>, <<"B">>, <<"1">>),
                      StopTimeRow(<<"T", "3">>, <<"A">>, <<"1">>),
                      StopTimeRow(<<"T", "1">>, <<"Z">>, <<"1">>)>>]

DatasetB ==
    [columns    |-> AllColumns,
     stops      |-> <<StopRow(<<"A">>, <<"M">>, <<"1", ".", "5">>, <<"2">>, None),
                      StopRow(<<"C">>, None, None, None, None)>>,
     routes     |-> <<RouteRow(<<"R">>, <<Y, Y, Y, Y, Y, Y, Y>>, <<"0">>, <<"5">>)>>,
     trips      |-> <<TripRow(<<"T", "1">>, <<"R">>, None)>>,
     stop_times |-> <<StopTimeRow(<<"T", "1">>, <<"A">>, <<"1">>),
                      StopTimeRow(<<"T", "1">>, <<"C">>, None),
                      StopTimeRow(<<"T", "9">>, <<"C">>, None),
                      StopTimeRow(<<"T", "1">>, <<"Y">>, None)>>]

\* stops.txt without the stop_name column
DatasetNoStopName ==
    [DatasetA EXCEPT !.columns.stops = @ \ {"stop_name"}]

\* stop_times.txt without the trip_id column
DatasetNoTripId ==
    [DatasetB EXCEPT !.columns.stop_times = @ \ {"trip_id"}]

\* a route_type of "inf" in routes.txt
DatasetOverflow ==
    [DatasetB EXCEPT
        !.routes = <<RouteRow(<<"R">>, <<Y, Y, Y, Y, Y, Y, Y>>, <<"i", "n", "f">>, None)>>]

\* no routes.txt row for the route the trips run, one more stop, and further
\* stop_times rows that cite an unknown trip and unknown stops
DatasetC ==
    [DatasetB EXCEPT
        !.stops = Append(@, StopRow(<<"D">>, None, None, None, None)),
        !.routes = <<>>,
        !.stop_times =
            @ \o <<StopTimeRow(<<"T", "8">>, <<"A">>, <<"1">>),
                   StopTimeRow(<<"T", "1">>, <<"D">>, <<"2">>),
                   StopTimeRow(<<"T", "1">>, <<"Z">>, None)>>]

MainDatasets ==
    {DatasetA, DatasetB, DatasetC, DatasetNoStopName, DatasetNoTripId, DatasetOverflow}

\* the committed content of the twelve tables before the run
OldStation ==
    [stop_id |-> <<"O">>, stop_name |-> <<"O", "l", "d">>, stop_lat |-> None,
     stop_lon |-> None, parent_station |-> None, child_stop_ids_json |-> <<>>]

PreRun ==
    [m \in Modes |->
        [stations |-> DictPut(EmptyDict, <<"O">>, OldStation), routes |-> EmptyDict,
         route_stops |-> EmptyDict]]

\* process_mode is not running: main calls it as a function
ProcessModeIdle ==
    /\ mode = ""
    /\ pc = "none"
    /\ station_map = EmptyDict
    /\ raw_stop_to_station = EmptyDict
    /\ route_map = EmptyDict
    /\ trip_map = EmptyDict
    /\ route_stop_map = EmptyDict
    /\ missing_trip_refs = 0
    /\ missing_stop_ids = {}
    /\ result = EmptyDict
    /\ rows_parsed = NoRowsParsed
    /\ cur_row = NoRow
    /\ stop_log = <<>>
    /\ route_seen = EmptyDict
    /\ st_seen = EmptyDict
    /\ st_count = NoCounts

MissingDataset == "RuntimeError: Missing GTFS dataset"

ExpectedOneDataset == "RuntimeError: Expected one GTFS dataset"

\* resolve_single_dataset_dir on a root holding n qualifying directories
resolve_single_dataset_dir_ZeroOnly(n) == IF n = 0 THEN MissingDataset ELSE ""

resolve_single_dataset_dir(n) ==
    IF n = 0 THEN MissingDataset ELSE IF n > 1 THEN ExpectedOneDataset ELSE ""

\* the order in which main handles the modes
NextMode(m) == CASE m = "subway" -> "lirr" [] m = "lirr" -> "mnr" [] m = "mnr" -> "bus"

NoCountsReport == [stations |-> 0, routes |-> 0, routeStops |-> 0]

NoWarnings == [missingTripRefs |-> 0, missingStopRefs |-> 0, sampleMissingStopIds |-> <<>>]

\* what the database holds once an exception has left `with conn:`: the
\* connection is not in autocommit mode, so the pending statements are rolled back
AfterException_Commits(stored, pending) == pending

AfterException(stored, pending) == stored

\* an exception inside `with conn:`: rollback, then conn.close() in finally
Abort(err) ==
    /\ main_err' = err
    /\ committed' = AfterException(committed, tx)
    /\ tx' = AfterException(committed, tx)
    /\ sink_log' = Append(sink_log, [op |-> "rollback"])
    /\ conn' = "closed"
    /\ main_pc' = "failed"
    /\ UNCHANGED <<main_mode, bus_index, dirs, loaded, report, bus_acc>>

InitMain ==
    /\ ProcessModeIdle
    /\ main_pc = "resolve"
    /\ main_mode = "subway"
    /\ bus_index = 0
    /\ dirs \in [Modes -> 0..MaxDirs]
    /\ loaded = EmptyDict
    /\ conn = "none"
    /\ sink_log = <<>>
    /\ tx = PreRun
    /\ committed = PreRun
    /\ report = EmptyDict
    /\ bus_acc = EmptyDict
    /\ main_err = ""

\* lines 620-622
ResolveSingle ==
    /\ main_pc = "resolve"
    /\ LET err == resolve_single_dataset_dir(dirs[main_mode])
       IN  IF err # ""
           THEN /\ main_pc' = "failed"
                /\ main_err' = err
                /\ UNCHANGED main_mode
           ELSE /\ main_pc' = IF main_mode = "mnr" THEN "collect_bus" ELSE "resolve"
                /\ main_mode' = NextMode(main_mode)
                /\ UNCHANGED main_err
    /\ UNCHANGED <<bus_index, dirs, loaded, conn, sink_log, tx, committed, report,
                   bus_acc, pm_vars, hist_vars>>

\* lines 623-644
CollectBus ==
    /\ main_pc = "collect_bus"
    /\ IF dirs["bus"] = 0
       THEN /\ main_pc' = "failed"
            /\ main_err' = MissingDataset
            /\ UNCHANGED <<report, bus_acc>>
       ELSE /\ main_pc' = "connect"
            /\ report' = [counts   |-> [m \in Modes |-> NoCountsReport],
                           warnings |-> [m \in Modes |-> NoWarnings]]
            /\ bus_acc' = [station_ids |-> {}, route_ids |-> {}, route_stop_keys |-> {},
                            missing_stop_ids |-> {}, missing_trip_refs |-> 0]
            /\ UNCHANGED main_err
    /\ UNCHANGED <<main_mode, bus_index, dirs, loaded, conn, sink_log, tx, committed,
                   pm_vars, hist_vars>>

\* line 646
Connect ==
    /\ main_pc = "connect"
    /\ conn' = "open"
    /\ tx' = committed
    /\ main_pc' = "clear"
    /\ UNCHANGED <<main_mode, bus_index, dirs, loaded, sink_log, committed, report,
                   bus_acc, main_err, pm_vars, hist_vars>>

\* line 646: psycopg2.connect raises, before the try block
ConnectFails ==
    /\ main_pc = "connect"
    /\ main_pc' = "failed"
    /\ main_err' = "psycopg2.OperationalError"
    /\ UNCHANGED <<main_mode, bus_index, dirs, loaded, conn, sink_log, tx, committed,
                   report, bus_acc, pm_vars, hist_vars>>

\* mutant: the connection is in autocommit mode, the truncate is stored at once
Clear_Autocommit ==
    /\ main_pc = "clear"
    /\ sink_log' = Append(sink_log, [op |-> "truncate"])
    /\ tx' = clear_mta_tables(tx)
    /\ committed' = clear_mta_tables(tx)
    /\ main_pc' = "process"
    /\ main_mode' = "subway"
    /\ UNCHANGED <<bus_index, dirs, loaded, conn, report, bus_acc, main_err,
                   pm_vars, hist_vars>>

\* lines 650-651
Clear ==
    /\ main_pc = "clear"
    /\ sink_log' = Append(sink_log, [op |-> "truncate"])
    /\ tx' = clear_mta_tables(tx)
    /\ main_pc' = "process"
    /\ main_mode' = "subway"
    /\ UNCHANGED <<bus_index, dirs, loaded, conn, committed, report, bus_acc, main_err,
                   pm_vars, hist_vars>>

\* lines 653, 662, 671, 683: process_mode on the dataset the directory holds
Process ==
    /\ main_pc = "process"
    /\ \E dataset \in MainDatasets :
          LET err == ProcessModeError(main_mode, dataset)
          IN  IF err # "" THEN Abort(err)
              ELSE /\ loaded' = ProcessModeOf(main_mode, dataset)
                   /\ main_pc' = IF main_mode = "bus" THEN "upsert" ELSE "insert"
                   /\ UNCHANGED <<main_mode, bus_index, dirs, conn, sink_log, tx,
                                   committed, report, bus_acc, main_err>>
    /\ UNCHANGED <<pm_vars, hist_vars>>

\* the statements execute_values_if_rows issues for one result
Statements(op, m, res) ==
    (IF res.stations_rows # <<>> THEN <<[op |-> op, mode |-> m, table |-> "stations"]>>
     ELSE <<>>)
    \o (IF res.routes_rows # <<>> THEN <<[op |-> op, mode |-> m, table |-> "routes"]>>
        ELSE <<>>)
    \o (IF res.route_stops_rows # <<>>
        THEN <<[op |-> op, mode |-> m, table |-> "route_stops"]>> ELSE <<>>)

\* mutant: each mode's inserts are committed when they are done
Insert_Commits ==
    /\ main_pc = "insert"
    /\ tx' = [tx EXCEPT ![main_mode] = insert_non_bus_mode(@, loaded)]
    /\ committed' = [tx EXCEPT ![main_mode] = insert_non_bus_mode(@, loaded)]
    /\ sink_log' = sink_log \o Statements("insert", main_mode, loaded)
    /\ report' = [report EXCEPT !.counts[main_mode] = loaded.counts,
                                 !.warnings[main_mode] = loaded.warnings]
    /\ main_mode' = NextMode(main_mode)
    /\ main_pc' = "process"
    /\ UNCHANGED <<bus_index, dirs, loaded, conn, bus_acc, main_err, pm_vars, hist_vars>>

\* lines 654-660, 663-669, 672-678
Insert ==
    /\ main_pc = "insert"
    /\ tx' = [tx EXCEPT ![main_mode] = insert_non_bus_mode(@, loaded)]
    /\ sink_log' = sink_log \o Statements("insert", main_mode, loaded)
    /\ report' = [report EXCEPT !.counts[main_mode] = loaded.counts,
                                 !.warnings[main_mode] = loaded.warnings]
    /\ main_mode' = NextMode(main_mode)
    /\ main_pc' = "process"
    /\ UNCHANGED <<bus_index, dirs, loaded, conn, committed, bus_acc, main_err,
                   pm_vars, hist_vars>>

\* lines 684-699
Upsert ==
    /\ main_pc = "upsert"
    /\ tx' = [tx EXCEPT !["bus"] = upsert_bus_mode(@, loaded)]
    /\ sink_log' = sink_log \o Statements("upsert", "bus", loaded)
    /\ bus_acc' =
          [station_ids       |-> bus_acc.station_ids
                                 \cup KeysOf(loaded.stations_rows, StationKeyOf),
           route_ids         |-> bus_acc.route_ids \cup KeysOf(loaded.routes_rows, RouteKeyOf),
           route_stop_keys   |-> bus_acc.route_stop_keys
                                 \cup KeysOf(loaded.route_stops_rows, RouteStopKeyOf),
           missing_stop_ids  |-> bus_acc.missing_stop_ids \cup loaded.missing_stop_ids,
           missing_trip_refs |-> bus_acc.missing_trip_refs + loaded.warnings.missingTripRefs]
    /\ bus_index' = bus_index + 1
    /\ main_pc' = IF bus_index + 1 < dirs["bus"] THEN "process" ELSE "commit"
    /\ UNCHANGED <<main_mode, dirs, loaded, conn, committed, report, main_err,
                   pm_vars, hist_vars>>

\* mutant: the bus report is taken from the last bus dataset alone
Commit_LastDataset ==
    /\ main_pc = "commit"
    /\ report' = [report EXCEPT !.counts["bus"] = loaded.counts,
                                 !.warnings["bus"] = loaded.warnings]
    /\ committed' = tx
    /\ sink_log' = Append(sink_log, [op |-> "commit"])
    /\ main_pc' = "close"
    /\ UNCHANGED <<main_mode, bus_index, dirs, loaded, conn, tx, bus_acc, main_err,
                   pm_vars, hist_vars>>

\* lines 701-710, then the exit of `with conn:` commits
Commit ==
    /\ main_pc = "commit"
    /\ report' =
          [report EXCEPT
              !.counts["bus"] =
                  [stations   |-> Cardinality(bus_acc.station_ids),
                   routes     |-> Cardinality(bus_acc.route_ids),
                   routeStops |-> Cardinality(bus_acc.route_stop_keys)],
              !.warnings["bus"] =
                  [missingTripRefs      |-> bus_acc.missing_trip_refs,
                   missingStopRefs      |-> Cardinality(bus_acc.missing_stop_ids),
                   sampleMissingStopIds |-> SampleMissingStopIds(bus_acc.missing_stop_ids)]]
    /\ committed' = tx
    /\ sink_log' = Append(sink_log, [op |-> "commit"])
    /\ main_pc' = "close"
    /\ UNCHANGED <<main_mode, bus_index, dirs, loaded, conn, tx, bus_acc, main_err,
                   pm_vars, hist_vars>>

\* lines 712-722
Close ==
    /\ main_pc = "close"
    /\ conn' = "closed"
    /\ main_pc' = "done"
    /\ UNCHANGED <<main_mode, bus_index, dirs, loaded, sink_log, tx, committed, report,
                   bus_acc, main_err, pm_vars, hist_vars>>

\* a statement or the commit raises psycopg2.Error
SinkFails ==
    /\ main_pc \in {"clear", "insert", "upsert", "commit"}
    /\ Abort("psycopg2.Error")
    /\ UNCHANGED <<pm_vars, hist_vars>>

NextMain ==
    \/ ResolveSingle
    \/ CollectBus
    \/ Connect
    \/ ConnectFails
    \/ Clear
    \/ Process
    \/ Insert
    \/ Upsert
    \/ Commit
    \/ Close
    \/ SinkFails

SpecMain == InitMain /\ [][NextMain]_vars

---------------------------------------------------------------------------
(* C1, C2: station ids and child sets *)

\* the station a logged stop row names: its parent value when non-blank, else itself
NamedStation(entry) == IF entry[2] # <<>> THEN entry[2] ELSE entry[1]

\* the emitted station rows carrying station id `id`
EmittedStations(id) ==
    {k \in 1..Len(result.stations_rows) : result.stations_rows[k].stop_id = id}

\* raw id `raw` is in the emitted child-id list of station `id`
EmittedChild(id, raw) ==
    \E k \in EmittedStations(id) :
        raw \in SeqRange(result.stations_rows[k].child_stop_ids_json)

\* stop row i keeps its station in the child set, before and after emission
RowIsChild(i) ==
    LET raw == stop_log[i][1]
        id  == NamedStation(stop_log[i])
    IN  /\ id \in DOMAIN station_map
        /\ raw \in station_map[id].child_stop_ids
        /\ pc = "done" => EmittedChild(id, raw)

RowIsLookedUp(i) ==
    LET raw == stop_log[i][1]
    IN  raw \in DOMAIN raw_stop_to_station
        /\ raw_stop_to_station[raw] = NamedStation(stop_log[i])

\* no later row repeats row i's raw stop id under another station
NotRenamedLater(i) ==
    \A j \in (i + 1)..Len(stop_log) :
        stop_log[j][1] = stop_log[i][1] => NamedStation(stop_log[j]) = NamedStation(stop_log[i])

(* C1 as stated: in a non-bus mode, after any sequence of stop rows, every kept
   row is mapped by the raw-stop-to-station lookup to the station its parent
   value names (itself when the parent is blank), and its raw stop id is in that
   station's child set and emitted child-id list. *)
C1_EveryRowLookedUp ==
    mode # "bus" => \A i \in 1..Len(stop_log) : RowIsLookedUp(i) /\ RowIsChild(i)

(* C1 amended: in a non-bus mode, after any sequence of stop rows, every kept
   row's raw stop id is in the child set and emitted child-id list of the
   station its parent value names (itself when blank); the lookup maps the row
   to that station unless a later row repeats its raw stop id with a different
   parent value, in which case the later row's station wins. *)
C1_LastRowLookedUp ==
    mode # "bus" =>
        \A i \in 1..Len(stop_log) :
            /\ RowIsChild(i)
            /\ NotRenamedLater(i) => RowIsLookedUp(i)
            /\ \E j \in i..Len(stop_log) :
                    /\ stop_log[j][1] = stop_log[i][1]
                    /\ NotRenamedLater(j)
                    /\ raw_stop_to_station[stop_log[i][1]] = NamedStation(stop_log[j])

\* a subway result where "A" was first a child of "P" and then repeated without parent
C1_Witness ==
    /\ mode = "subway"
    /\ pc = "done"
    /\ Len(stop_log) = 2
    /\ stop_log[1][1] = <<"A">> /\ stop_log[1][2] = <<"P">>
    /\ stop_log[2][1] = <<"A">> /\ stop_log[2][2] = <<>>
    /\ EmittedChild(<<"P">>, <<"A">>)

(* C2: in bus mode every kept stop row is mapped to the station whose id is its
   own raw stop id, no station's child set ever gains a member, and every
   emitted station row carries an empty child-id list. *)
C2_BusNeverClusters ==
    mode = "bus" =>
        /\ \A i \in 1..Len(stop_log) :
               LET raw == stop_log[i][1]
               IN  /\ raw \in DOMAIN raw_stop_to_station
                   /\ raw_stop_to_station[raw] = raw
                   /\ raw \in DOMAIN station_map
                   /\ station_map[raw].stop_id = raw
        /\ \A id \in DOMAIN station_map : station_map[id].child_stop_ids = {}
        /\ pc = "done" =>
               /\ \A i \in 1..Len(stop_log) : EmittedStations(stop_log[i][1]) # {}
               /\ \A k \in 1..Len(result.stations_rows) :
                      result.stations_rows[k].child_stop_ids_json = <<>>

\* a bus result holding a stop row that names a parent station
C2_Witness ==
    /\ mode = "bus"
    /\ pc = "done"
    /\ \E i \in 1..Len(stop_log) : stop_log[i][1] = <<"A">> /\ stop_log[i][2] = <<"P">>
    /\ Len(result.stations_rows) >= 1

---------------------------------------------------------------------------
(* C4, C5: route merge *)

FilledFields == {"agency_id", "route_short_name", "route_long_name", "route_desc",
                 "route_url", "route_color", "route_text_color", "route_sort_order"}

\* the field holds a value: a non-empty text, or a sort order that is not None
Populated(f, v) == IF f = "route_sort_order" THEN v # IntNone ELSE Truthy(v)

FieldKept(id, f) ==
    LET old == route_map[id][f]
        new == route_map'[id][f]
    IN  /\ Populated(f, old) => new = old
        /\ new # old => ~Populated(f, old) /\ Populated(f, new)

(* C4: in every step of the routes loop, each stored route stays stored, none of
   its populated fields agency, short name, long name, description, url, color,
   text color, sort order changes, and a field that changes was empty and
   becomes populated. *)
C4_PopulatedFieldsKept ==
    [][\A id \in DOMAIN route_map :
          id \in DOMAIN route_map' /\ \A f \in FilledFields : FieldKept(id, f)]_vars

\* a route that merged three rows: agency kept from the first, short name filled
\* by a later one, sort order 0 filled
C4_Witness ==
    \E id \in DOMAIN route_map :
        /\ Len(route_seen[id]) = 3
        /\ route_map[id].agency_id = X
        /\ route_map[id].route_short_name = Y
        /\ route_map[id].route_sort_order = Some(0)

\* the first type of `types` that is not the mode's default, else the default
FirstNonDefault(m, types) ==
    LET hits == {i \in 1..Len(types) : types[i] # MODE_DEFAULT_ROUTE_TYPE[m]}
    IN  IF hits = {} THEN MODE_DEFAULT_ROUTE_TYPE[m]
        ELSE types[CHOOSE i \in hits : \A j \in hits : i <= j]

TypeReplacedOnlyFromDefault ==
    \A id \in DOMAIN route_map :
        route_map'[id].route_type # route_map[id].route_type =>
            /\ route_map[id].route_type = MODE_DEFAULT_ROUTE_TYPE[mode]
            /\ route_map'[id].route_type # MODE_DEFAULT_ROUTE_TYPE[mode]
            /\ route_map'[id].route_type = route_seen'[id][Len(route_seen'[id])]

TypeIsFirstNonDefault ==
    \A id \in DOMAIN route_map :
        route_map[id].route_type = FirstNonDefault(mode, route_seen[id])

(* C5: a stored route type is replaced only in a step where it equals the mode's
   default and the incoming record's type (line 264) differs from the default;
   after any sequence of rows the stored type is the first non-default type among
   the incoming records of its id, in row order, or the default if there is none. *)
C5_FirstNonDefaultTypeWins ==
    [][TypeReplacedOnlyFromDefault]_vars /\ []TypeIsFirstNonDefault

\* a subway route whose rows carried the default, then 2, then 3: it holds 2
C5_Witness ==
    /\ mode = "subway"
    /\ \E id \in DOMAIN route_map :
           /\ route_seen[id] = <<1, 2, 3>>
           /\ route_map[id].route_type = 2

---------------------------------------------------------------------------
(* C3, C6, C7, C8: route-stop sequencing *)

Concrete(observed) == {v[1] : v \in observed \ {IntNone}}

MinOf(S) == CHOOSE x \in S : \A y \in S : x <= y

StoredIsMinimumObserved ==
    /\ DOMAIN route_stop_map = DOMAIN st_seen
    /\ \A key \in DOMAIN route_stop_map :
           IF Concrete(st_seen[key]) = {} THEN route_stop_map[key] = IntNone
           ELSE route_stop_map[key] = Some(MinOf(Concrete(st_seen[key])))

ConcreteNeverLost ==
    \A key \in DOMAIN route_stop_map :
        /\ key \in DOMAIN route_stop_map'
        /\ route_stop_map[key] # IntNone =>
               /\ route_stop_map'[key] # IntNone
               /\ route_stop_map'[key][1] <= route_stop_map[key][1]

(* C3: after any sequence of stop-time rows, the value stored for each
   assignment key is the minimum of the concrete sequences observed for it, and
   None only if every observed sequence was None; no step replaces a concrete
   stored value by None or by a larger one. *)
C3_MinimumSequenceStored == []StoredIsMinimumObserved /\ [][ConcreteNeverLost]_vars

\* a key that saw None, 3 and 1 and holds 1
C3_Witness ==
    \E key \in DOMAIN route_stop_map :
        /\ st_seen[key] = {IntNone, Some(1), Some(3)}
        /\ route_stop_map[key] = Some(1)

\* row a sorts before row b in the stated order: route id, direction, sequence
\* with None as +infinity (after every concrete value), station id
SortsBefore(a, b) ==
    IF a.route_id # b.route_id THEN TextLess(a.route_id, b.route_id)
    ELSE IF a.direction_id # b.direction_id THEN a.direction_id < b.direction_id
    ELSE IF a.route_stop_sort_order # b.route_stop_sort_order
         THEN /\ a.route_stop_sort_order # IntNone
              /\ \/ b.route_stop_sort_order = IntNone
                 \/ a.route_stop_sort_order[1] < b.route_stop_sort_order[1]
    ELSE TextLess(a.stop_id, b.stop_id)

(* C6: the emitted assignment rows are in ascending order of (route id,
   direction, sequence, station id), None sorting after every concrete sequence
   that integer parsing can produce. *)
C6_AbsentSortsLast ==
    pc = "done" =>
        \A i, j \in 1..Len(result.route_stops_rows) :
            i < j => SortsBefore(result.route_stops_rows[i], result.route_stops_rows[j])

StopTimeStep == rows_parsed'.stop_times = rows_parsed.stop_times + 1

CountedAndDropped ==
    /\ missing_trip_refs' = missing_trip_refs + 1
    /\ route_stop_map' = route_stop_map
    /\ missing_stop_ids' = missing_stop_ids

(* C7 as stated: every stop-time row whose trip id does not resolve in the trip
   table adds exactly one to the missing-trip counter and leaves the assignment
   map and the missing-stop-ids set unchanged; the reported missingTripRefs is
   the number of such rows. *)
C7_EveryUnresolvedRowCounted ==
    /\ [][StopTimeStep /\ ~TripKnown(cur_row') => CountedAndDropped]_vars
    /\ [](missing_trip_refs = st_count.unresolved)
    /\ [](pc = "done" => result.warnings.missingTripRefs = st_count.unresolved)

(* C7 amended: every stop-time row with a non-blank trip id and a non-blank stop
   id whose trip id does not resolve adds exactly one to the counter and leaves
   the assignment map and the missing-stop-ids set unchanged; a row with a blank
   trip id or a blank stop id is skipped uncounted; the reported missingTripRefs
   is the number of rows with both ids given and an unresolved trip id. *)
C7_KeptUnresolvedRowCounted ==
    /\ [][StopTimeStep /\ BothIdsGiven(cur_row') /\ ~TripKnown(cur_row')
            => CountedAndDropped]_vars
    /\ [][StopTimeStep /\ ~BothIdsGiven(cur_row')
            => missing_trip_refs' = missing_trip_refs]_vars
    /\ [](missing_trip_refs = st_count.unresolved_kept)
    /\ [](pc = "done" => result.warnings.missingTripRefs = st_count.unresolved_kept)

\* a result reporting one unresolved trip reference out of two unresolved rows,
\* the other one having a blank stop id
C7_Witness ==
    /\ pc = "done"
    /\ result.warnings.missingTripRefs = 1
    /\ st_count.unresolved = 2
    /\ cur_row.trip_id = <<"T", "3">>
    /\ cur_row.stop_id = <<" ">>

\* the row's trip resolves and its raw stop id is no key of the lookup
NotLookedUp(row) ==
    /\ BothIdsGiven(row)
    /\ TripKnown(row)
    /\ normalize_text(row.stop_id) \notin DOMAIN raw_stop_to_station

ReportedAndDropped(row) ==
    /\ route_stop_map' = route_stop_map
    /\ normalize_text(row.stop_id) \in missing_stop_ids'

(* C8 as stated: a stop-time row with a resolvable trip whose raw stop id is no
   key of the raw-stop-to-station lookup never creates or updates an assignment:
   its raw stop id joins the missing-stop-ids set and the row is dropped, also
   when the raw stop id is the id of a station created through parent values. *)
C8_UnmappedStopDropped ==
    [][StopTimeStep /\ NotLookedUp(cur_row') => ReportedAndDropped(cur_row')]_vars

\* the assignment key of a row whose raw stop id is taken as the station id
DirectKey(row) ==
    <<trip_map[normalize_text(row.trip_id)][1], trip_map[normalize_text(row.trip_id)][2],
      normalize_text(row.stop_id)>>

(* C8 amended: a stop-time row with a resolvable trip whose raw stop id is
   neither a key of the lookup nor the id of a station of the station map never
   creates or updates an assignment: its raw stop id joins the missing-stop-ids
   set and the row is dropped. A raw stop id that is no key of the lookup but is
   the id of a station (one created through other rows' parent values) is not
   reported: the row is assigned to that station. *)
C8_UnknownStopDropped ==
    /\ [][StopTimeStep /\ NotLookedUp(cur_row')
             /\ normalize_text(cur_row'.stop_id) \notin DOMAIN station_map
            => ReportedAndDropped(cur_row')]_vars
    /\ [][StopTimeStep /\ NotLookedUp(cur_row')
             /\ normalize_text(cur_row'.stop_id) \in DOMAIN station_map
             /\ pc' # "raised"
            => /\ missing_stop_ids' = missing_stop_ids
               /\ DirectKey(cur_row') \in DOMAIN route_stop_map']_vars

\* a subway run that assigned parent station "P" directly and then dropped "Z"
C8_Witness ==
    /\ mode = "subway"
    /\ <<(<<"R">>), 0, (<<"P">>)>> \in DOMAIN route_stop_map
    /\ <<"P">> \notin DOMAIN raw_stop_to_station
    /\ cur_row.table = "stop_times"
    /\ cur_row.stop_id = <<"Z">>
    /\ cur_row.trip_id = <<"T", "1">>
    /\ missing_stop_ids = {<<"Z">>}

---------------------------------------------------------------------------
(* C9: the dataset-count checks precede the sink *)

CountsValid ==
    /\ \A m \in {"subway", "lirr", "mnr"} : dirs[m] = 1
    /\ dirs["bus"] >= 1

\* the sink has been touched: a connection was opened or a statement issued
SinkTouched == conn # "none" \/ sink_log # <<>> \/ tx # PreRun \/ committed # PreRun

\* C9: when a single-dataset mode has zero or several qualifying directories, or
\* bus has none, the run never opens the connection and never clears or writes a
\* table, and it can only end in a dataset-count error; so whenever the sink has
\* been touched, the counts of all four modes were valid.
C9_CountChecksPrecedeSink ==
    ~CountsValid =>
        /\ ~SinkTouched
        /\ main_pc \in {"resolve", "collect_bus", "failed"}
        /\ main_pc = "failed" => main_err \in {MissingDataset, ExpectedOneDataset}

\* two lirr directories: failed after the subway check passed, the sink untouched
C9_Witness ==
    /\ dirs = [subway |-> 1, lirr |-> 2, mnr |-> 1, bus |-> 1]
    /\ main_pc = "failed"
    /\ main_err = ExpectedOneDataset
    /\ ~SinkTouched

---------------------------------------------------------------------------
(* C10: a missing required column *)

Issued(op) == \E i \in 1..Len(sink_log) : sink_log[i].op = op

\* C10 as stated: when the missing-column error is raised, no clear and no insert
\* or upsert of any mode's tables has been executed.
C10_NoWriteBeforeMissingColumns ==
    main_err = MissingColumnsError =>
        ~Issued("truncate") /\ ~Issued("insert") /\ ~Issued("upsert")

\* C10 amended: when the missing-column error is raised, the clear has been issued
\* (and the inserts of the modes handled before), but inside the run's single
\* transaction, which is rolled back and never committed: the stored tables are
\* those from before the run, and the connection is closed.
C10_MissingColumnsRollBack ==
    main_err = MissingColumnsError =>
        /\ main_pc = "failed"
        /\ Issued("truncate")
        /\ ~Issued("commit")
        /\ sink_log[Len(sink_log)].op = "rollback"
        /\ committed = PreRun
        /\ conn = "closed"

\* the lirr dataset lacks a column: the clear and the subway inserts were issued
\* and rolled back
C10_Witness ==
    /\ main_err = MissingColumnsError
    /\ main_mode = "lirr"
    /\ \E i \in 1..Len(sink_log) : sink_log[i].op = "insert" /\ sink_log[i].mode = "subway"
    /\ committed = PreRun

---------------------------------------------------------------------------
(* C11, C12: what a failed run leaves in the sink *)

\* the datasets process_mode accepts in mode m
GoodDatasets(m) == {ds \in MainDatasets : ProcessModeError(m, ds) = ""}

\* the complete contents a run can write for a single-dataset mode
NewContents(m) ==
    {insert_non_bus_mode(NoTables, ProcessModeOf(m, ds)) : ds \in GoodDatasets(m)}

\* the contents n bus datasets, upserted in turn into the cleared tables, can leave
RECURSIVE BusContents(_)
BusContents(n) ==
    IF n = 0 THEN {NoTables}
    ELSE {upsert_bus_mode(t, ProcessModeOf("bus", ds)) :
            t \in BusContents(n - 1), ds \in GoodDatasets("bus")}

InsertedFor(m) ==
    \E i \in 1..Len(sink_log) : sink_log[i].op = "insert" /\ sink_log[i].mode = m

\* C11 as stated: when the run fails at a later mode, the rows written for subway
\* earlier in the run are what the sink holds for subway after the run.
C11_EarlierWritesStay ==
    (main_pc = "failed" /\ InsertedFor("subway")) =>
        committed["subway"] \in NewContents("subway")

\* C11 amended: when the run fails after the connection was opened, at any later
\* mode, the run's single transaction is rolled back: no mode's writes of this run
\* are stored, and every table holds its content from before the run.
C11_FailureRollsBackAll ==
    (main_pc = "failed" /\ conn = "closed") =>
        /\ committed = PreRun
        /\ sink_log[Len(sink_log)].op = "rollback"
        /\ ~Issued("commit")

\* a parse error in a bus dataset after subway, lirr and mnr were inserted
C11_Witness ==
    /\ main_pc = "failed"
    /\ main_err = "OverflowError"
    /\ main_mode = "bus"
    /\ InsertedFor("subway") /\ InsertedFor("lirr") /\ InsertedFor("mnr")
    /\ committed = PreRun

\* C12: in every state of every run, failed runs included, the stored content of
\* each mode's three tables is either exactly the content from before the run or
\* exactly the complete content the run writes for that mode (for bus: all of the
\* run's bus datasets upserted into the cleared tables); cleared or partly written
\* tables are never stored.
C12_NoPartialReplace ==
    \A m \in Modes :
        \/ committed[m] = PreRun[m]
        \/ /\ m # "bus"
           /\ committed[m] \in NewContents(m)
           /\ main_pc \in {"close", "done"}
        \/ /\ m = "bus"
           /\ committed[m] \in BusContents(dirs["bus"])
           /\ main_pc \in {"close", "done"}

\* the sink fails at the second bus upsert: cleared and partly rewritten tables are
\* pending, the stored ones are those from before the run
C12_Witness ==
    /\ main_pc = "failed"
    /\ main_err = "psycopg2.Error"
    /\ bus_index = 1
    /\ Issued("upsert")
    /\ committed = PreRun

---------------------------------------------------------------------------
(* C13, C14, C15: the bus upsert on rows the sink already holds *)

\* a step that applies upsert_bus_mode to the pending bus tables
UpsertStep == main_pc = "upsert" /\ main_pc' # "failed"

\* the stop ids, route ids and assignment keys both stored and incoming
StationsInConflict ==
    (DOMAIN tx["bus"].stations) \cap KeysOf(loaded.stations_rows, StationKeyOf)

RoutesInConflict == (DOMAIN tx["bus"].routes) \cap KeysOf(loaded.routes_rows, RouteKeyOf)

RouteStopsInConflict ==
    (DOMAIN tx["bus"].route_stops) \cap KeysOf(loaded.route_stops_rows, RouteStopKeyOf)

IncomingStation(k) == RowWithKey(loaded.stations_rows, StationKeyOf, k)

IncomingBusRoute(k) == RowWithKey(loaded.routes_rows, RouteKeyOf, k)

IncomingRouteStop(k) == RowWithKey(loaded.route_stops_rows, RouteStopKeyOf, k)

StationFillFields == {"stop_lat", "stop_lon", "parent_station"}

\* C13 as stated: on an existing stop id the upsert takes the incoming name, and a
\* stored non-null latitude, longitude or parent is never replaced.
C13_StoredCoordinatesKept ==
    [][UpsertStep =>
        \A k \in StationsInConflict :
            /\ tx'["bus"].stations[k].stop_name = IncomingStation(k).stop_name
            /\ \A f \in StationFillFields :
                  tx["bus"].stations[k][f] # None =>
                      tx'["bus"].stations[k][f] = tx["bus"].stations[k][f]]_vars

\* C13 amended: on an existing stop id the upsert takes the incoming name, and takes
\* the incoming latitude, longitude and parent whenever the incoming value is
\* non-null, also over a different stored non-null value; the stored value is kept
\* only when the incoming one is null.
C13_IncomingCoordinatesWin ==
    [][UpsertStep =>
        \A k \in StationsInConflict :
            /\ tx'["bus"].stations[k].stop_name = IncomingStation(k).stop_name
            /\ \A f \in StationFillFields :
                  tx'["bus"].stations[k][f] =
                      IF IncomingStation(k)[f] # None THEN IncomingStation(k)[f]
                      ELSE tx["bus"].stations[k][f]]_vars

\* stop A after two bus datasets: latitude 1.5 of the first replaced by 9 of the
\* second, longitude 2 kept because the second gave none
C13_Witness ==
    /\ bus_index = 2
    /\ <<"A">> \in DOMAIN tx["bus"].stations
    /\ tx["bus"].stations[<<"A">>].stop_name = <<"N">>
    /\ tx["bus"].stations[<<"A">>].stop_lat = <<"9">>
    /\ tx["bus"].stations[<<"A">>].stop_lon = <<"2">>

RouteNullableFields ==
    {"agency_id", "route_desc", "route_url", "route_color", "route_text_color"}

RouteNameFields == {"route_short_name", "route_long_name"}

\* C14 as stated: on an existing route id the upsert keeps every stored non-null
\* agency, short name, long name, description, url, color, text color and sort
\* order, and takes the incoming route type.
C14_StoredRouteValuesKept ==
    [][UpsertStep =>
        \A k \in RoutesInConflict :
            LET stored == tx["bus"].routes[k]
                after  == tx'["bus"].routes[k]
            IN  /\ after.route_type = IncomingBusRoute(k).route_type
                /\ \A f \in RouteNullableFields \cup RouteNameFields :
                      stored[f] # None => after[f] = stored[f]
                /\ stored.route_sort_order # IntNone =>
                      after.route_sort_order = stored.route_sort_order]_vars

\* C14 amended: on an existing route id the upsert takes the incoming agency,
\* description, url, color, text color and sort order whenever the incoming value
\* is non-null, and the incoming short and long name whenever it is non-empty, also
\* over a different stored value; a stored value is kept only when the incoming one
\* is null (empty, for the two names); the route type is always the incoming one.
C14_IncomingRouteValuesWin ==
    [][UpsertStep =>
        \A k \in RoutesInConflict :
            LET stored   == tx["bus"].routes[k]
                after    == tx'["bus"].routes[k]
                incoming == IncomingBusRoute(k)
            IN  /\ after.route_type = incoming.route_type
                /\ \A f \in RouteNullableFields :
                      after[f] = IF incoming[f] # None THEN incoming[f] ELSE stored[f]
                /\ \A f \in RouteNameFields :
                      after[f] = IF incoming[f] \notin {None, <<>>} THEN incoming[f]
                                 ELSE stored[f]
                /\ after.route_sort_order =
                      IF incoming.route_sort_order # IntNone
                      THEN incoming.route_sort_order ELSE stored.route_sort_order]_vars

\* route R after two bus datasets: agency y of the first replaced by x of the
\* second, short name and description y kept because the second gave none, sort
\* order 5 replaced by 0, type 3 replaced by 2
C14_Witness ==
    /\ bus_index = 2
    /\ <<"R">> \in DOMAIN tx["bus"].routes
    /\ tx["bus"].routes[<<"R">>].agency_id = X
    /\ tx["bus"].routes[<<"R">>].route_short_name = Y
    /\ tx["bus"].routes[<<"R">>].route_desc = Y
    /\ tx["bus"].routes[<<"R">>].route_sort_order = Some(0)
    /\ tx["bus"].routes[<<"R">>].route_type = 2

\* C15: across the bus datasets of one run the sink holds one assignment row per
\* (route id, direction, station id); an upsert leaves every row whose key is
\* already stored as it is, also when the incoming sequence is smaller, and stores
\* the incoming row of every new key: the sequence is that of the first dataset
\* that produced the key.
C15_FirstAssignmentWins ==
    [][UpsertStep =>
        /\ \A k \in RouteStopsInConflict :
              tx'["bus"].route_stops[k] = tx["bus"].route_stops[k]
        /\ \A k \in KeysOf(loaded.route_stops_rows, RouteStopKeyOf) \ RouteStopsInConflict :
              tx'["bus"].route_stops[k] = IncomingRouteStop(k)
        /\ DOMAIN tx'["bus"].route_stops =
              (DOMAIN tx["bus"].route_stops)
                  \cup KeysOf(loaded.route_stops_rows, RouteStopKeyOf)]_vars

\* key (R, 0, A) after two bus datasets: the first emitted sequence 3, the second
\* emitted 1, the sink still holds 3
C15_Witness ==
    /\ bus_index = 2
    /\ <<<<"R">>, 0, <<"A">>>> \in DOMAIN tx["bus"].route_stops
    /\ tx["bus"].route_stops[<<<<"R">>, 0, <<"A">>>>].route_stop_sort_order = Some(3)
    /\ IncomingRouteStop(<<<<"R">>, 0, <<"A">>>>).route_stop_sort_order = Some(1)

---------------------------------------------------------------------------
(* C16: the bus upsert applied twice *)

\* the bus tables the upsert is tried on: the pending ones, those from before the
\* run, and those any two bus datasets leave
PriorBusTables == {tx["bus"], PreRun["bus"]} \cup BusContents(2)

\* C16: whenever a bus result is about to be upserted, upserting it twice in
\* succession into any of the prior bus tables leaves what upserting it once leaves:
\* the same assignment keys, each once, and the same station and route rows.
C16_UpsertIdempotent ==
    main_pc = "upsert" =>
        \A prior \in PriorBusTables :
            upsert_bus_mode(upsert_bus_mode(prior, loaded), loaded)
                = upsert_bus_mode(prior, loaded)

\* the same dataset is in two bus directories: its rows are about to be upserted
\* into tables that hold them already, with stations, routes and assignments
C16_Witness ==
    /\ main_pc = "upsert"
    /\ bus_index = 1
    /\ tx["bus"] = upsert_bus_mode(NoTables, loaded)
    /\ loaded.stations_rows # <<>>
    /\ loaded.routes_rows # <<>>
    /\ loaded.route_stops_rows # <<>>

---------------------------------------------------------------------------
(* C17: canonical route ids and distinct keys of the emitted rows *)

EmittedRouteIds == {result.routes_rows[i].route_id : i \in 1..Len(result.routes_rows)}

\* the canonical ids of the route rows read, empty ones left out
CanonicalRouteIds ==
    {normalize_route_id(SequencingRoutes[i].route_id) : i \in 1..Len(SequencingRoutes)}
        \ {<<>>}

Canonical(id) == id # <<>> /\ Upper(id) = id /\ Strip(id) = id

\* C17: in every result, the emitted route rows are one per canonical (trimmed,
\* uppercased) non-empty route id of the route rows read, rows whose ids differ in
\* case or surrounding blanks being one route and rows with a blank id none; the
\* route ids of the trip table and of the assignment rows are canonical too; and
\* station rows, route rows and assignment rows each have pairwise distinct keys.
C17_CanonicalDistinctKeys ==
    pc = "done" =>
        /\ EmittedRouteIds = CanonicalRouteIds
        /\ Len(result.routes_rows) = Cardinality(CanonicalRouteIds)
        /\ \A id \in EmittedRouteIds : Canonical(id)
        /\ \A t \in DOMAIN trip_map : Canonical(trip_map[t][1])
        /\ \A i \in 1..Len(result.route_stops_rows) :
              Canonical(result.route_stops_rows[i].route_id)
        /\ Cardinality(KeysOf(result.stations_rows, StationKeyOf))
              = Len(result.stations_rows)
        /\ Cardinality(KeysOf(result.route_stops_rows, RouteStopKeyOf))
              = Len(result.route_stops_rows)

\* a result with routes B and R (three route rows with a non-blank id were read),
\* two stations and assignments of route R, which the trips name "r" and "R "
C17_Witness ==
    /\ pc = "done"
    /\ EmittedRouteIds = {<<"B">>, <<"R">>}
    /\ Len(result.stations_rows) = 2
    /\ Len(result.route_stops_rows) >= 2
    /\ \E i \in 1..Len(result.route_stops_rows) : result.route_stops_rows[i].direction_id = 1

---------------------------------------------------------------------------
(* C18, C19: later sightings of a station *)

\* the station a logged stop row belongs to in the mode of the run
StationOf(entry) == CanonicalStationId(mode, entry[1], entry[2])

\* the rows read so far that belong to station id
ClusterRows(id) == {i \in 1..Len(stop_log) : StationOf(stop_log[i]) = id}

\* the non-blank names the rows of station id carry
ClusterNames(id) == {stop_log[i][3] : i \in ClusterRows(id)} \ {<<>>}

\* a stops-loop step on a kept row
StopStep == pc = "stops" /\ Len(stop_log') = Len(stop_log) + 1

CoordinatesAndParentKept(id) ==
    /\ station_map[id].stop_lat # None => station_map'[id].stop_lat = station_map[id].stop_lat
    /\ station_map[id].stop_lon # None => station_map'[id].stop_lon = station_map[id].stop_lon
    /\ station_map'[id].parent_station = station_map[id].parent_station

\* C18 as stated: on a later sighting of a station the non-absent coordinates and
\* the parent stay, and so does a name one of the station's rows carried, also one
\* that equals the station id.
C18_RealNameKept ==
    [][StopStep =>
        \A id \in DOMAIN station_map :
            /\ CoordinatesAndParentKept(id)
            /\ station_map[id].stop_name \in ClusterNames(id) =>
                  station_map'[id].stop_name = station_map[id].stop_name]_vars

\* C18 amended: on a later sighting of a station the non-absent coordinates and the
\* parent stay, and so does a name that is non-empty and differs from the station
\* id; a name equal to the station id, whether a placeholder or a name a row
\* carried, is replaced by the incoming row's name (its raw stop id if it has none),
\* and an absent coordinate by the incoming row's.
C18_NameOtherThanIdKept ==
    [][StopStep =>
        \A id \in DOMAIN station_map :
            LET sighted == StationOf(stop_log'[Len(stop_log')]) = id
                old     == station_map[id]
                new     == station_map'[id]
                given   == stop_log'[Len(stop_log')][3]
            IN  /\ CoordinatesAndParentKept(id)
                /\ (old.stop_name # <<>> /\ old.stop_name # id) =>
                      new.stop_name = old.stop_name
                /\ ~sighted => new.stop_name = old.stop_name
                /\ (sighted /\ old.stop_name = id) =>
                      new.stop_name = IF given # <<>> THEN given
                                      ELSE stop_log'[Len(stop_log')][1]]_vars

\* station A sighted three times: the name "A" of its first row was replaced by
\* "N", the latitude 1 of the second row was kept when the third gave 2
C18_Witness ==
    /\ Len(stop_log) = 3
    /\ \A i \in 1..3 : stop_log[i][1] = <<"A">> /\ stop_log[i][2] = <<>>
    /\ stop_log[1][3] = <<"A">>
    /\ stop_log[2][3] = <<"N">>
    /\ cur_row.stop_lat = <<"2">>
    /\ station_map[<<"A">>].stop_name = <<"N">>
    /\ station_map[<<"A">>].stop_lat = <<"1">>
    /\ station_map[<<"A">>].stop_lon = <<"1">>

\* C19: a station whose rows so far all have a blank name is named by its station
\* id, and a station one of whose rows has a non-blank name is named, in the map
\* and in the emitted row, by the name of one of its rows.
C19_PlaceholderReplaced ==
    \A id \in DOMAIN station_map :
        /\ ClusterNames(id) = {} => station_map[id].stop_name = id
        /\ ClusterNames(id) # {} =>
              /\ station_map[id].stop_name \in ClusterNames(id)
              /\ pc = "done" =>
                    \A i \in 1..Len(result.stations_rows) :
                        result.stations_rows[i].stop_id = id =>
                            result.stations_rows[i].stop_name \in ClusterNames(id)

---------------------------------------------------------------------------
(* C20: zero-valued route fields *)

\* the first row of the dataset's routes table with canonical route id `id`
FirstRouteRow(dataset, id) ==
    dataset.routes[CHOOSE i \in 1..Len(dataset.routes) :
        /\ normalize_route_id(dataset.routes[i].route_id) = id
        /\ \A j \in 1..(i - 1) : normalize_route_id(dataset.routes[j].route_id) # id]

\* C20: whenever main holds the result of a dataset, every emitted route whose
\* first row has a sort order that parses to 0 has sort order 0, whatever the later
\* rows give, and every emitted route whose first row has a route type that parses
\* to 0 has route type 0.
C20_ZeroPreserved ==
    main_pc \in {"insert", "upsert"} =>
        \A dataset \in GoodDatasets(main_mode) :
            loaded = ProcessModeOf(main_mode, dataset) =>
                \A i \in 1..Len(loaded.routes_rows) :
                    LET emitted == loaded.routes_rows[i]
                        first   == FirstRouteRow(dataset, emitted.route_id)
                    IN  /\ parse_int_or_none(first.route_sort_order) = Some(0) =>
                              emitted.route_sort_order = Some(0)
                        /\ parse_int_or_none(first.route_type) = Some(0) =>
                              emitted.route_type = 0

---------------------------------------------------------------------------
(* C21: the bus report *)

\* the bus tables after the first n datasets of s were upserted in turn
RECURSIVE BusFold(_, _)
BusFold(s, n) ==
    IF n = 0 THEN NoTables
    ELSE upsert_bus_mode(BusFold(s, n - 1), ProcessModeOf("bus", s[n]))

RECURSIVE SumMissingTripRefs(_, _)
SumMissingTripRefs(s, n) ==
    IF n = 0 THEN 0
    ELSE SumMissingTripRefs(s, n - 1)
            + ProcessModeOf("bus", s[n]).warnings.missingTripRefs

\* a sequence is duplicate-free, within `ids`, and as long as the cap allows
CappedSample(sample, ids) ==
    /\ \A i, j \in 1..Len(sample) : sample[i] = sample[j] => i = j
    /\ \A i \in 1..Len(sample) : sample[i] \in ids
    /\ Len(sample) = IF Cardinality(ids) < 50 THEN Cardinality(ids) ELSE 50

\* fifty-one stop ids, "Z00" to "Z50"
ManyStopIds ==
    {<<"Z", DigitSeq[(i \div 10) + 1], DigitSeq[(i % 10) + 1]>> : i \in 0..50}

\* the report agrees with the bus datasets s whose upserts left the pending tables
BusReportOf(s) ==
    LET n       == dirs["bus"]
        results == [i \in 1..n |-> ProcessModeOf("bus", s[i])]
        missing == UNION {results[i].missing_stop_ids : i \in 1..n}
    IN  /\ tx["bus"] = BusFold(s, n)
        /\ report.counts["bus"].stations =
              Cardinality(UNION {KeysOf(results[i].stations_rows, StationKeyOf) : i \in 1..n})
        /\ report.counts["bus"].routes =
              Cardinality(UNION {KeysOf(results[i].routes_rows, RouteKeyOf) : i \in 1..n})
        /\ report.counts["bus"].routeStops =
              Cardinality(UNION {KeysOf(results[i].route_stops_rows, RouteStopKeyOf) :
                                    i \in 1..n})
        /\ report.warnings["bus"].missingTripRefs = SumMissingTripRefs(s, n)
        /\ report.warnings["bus"].missingStopRefs = Cardinality(missing)
        /\ CappedSample(report.warnings["bus"].sampleMissingStopIds, missing)

\* C21: once the bus datasets are handled, the reported bus counts are the numbers
\* of distinct station ids, route ids and assignment keys the datasets emitted,
\* missingTripRefs is the sum of their counters, missingStopRefs the number of
\* distinct unresolved stop ids, and the sample a duplicate-free subset of those ids
\* of size min(50, missingStopRefs); no mode's sample exceeds 50 ids, and the
\* sampling applied to the unresolved ids of a run together with fifty-one more (the
\* runs with at most one bus dataset are taken) yields exactly 50 of them.
C21_BusReport ==
    /\ main_pc \in {"close", "done"} =>
          /\ \E s \in [1..dirs["bus"] -> GoodDatasets("bus")] : BusReportOf(s)
          /\ \A m \in Modes : Len(report.warnings[m].sampleMissingStopIds) <= 50
    /\ main_pc = "close" /\ dirs["bus"] <= 1 =>
          CappedSample(SampleMissingStopIds(ManyStopIds \cup bus_acc.missing_stop_ids),
                       ManyStopIds \cup bus_acc.missing_stop_ids)

\* two bus datasets of two stations and one route each that share stop A and route
\* R: three stations and one route are reported, the unknown trips add up to two,
\* and the sample lists the unknown stop of each dataset
C21_Witness ==
    /\ main_pc = "done"
    /\ dirs["bus"] = 2
    /\ report.counts["bus"].stations = 3
    /\ report.counts["bus"].routes = 1
    /\ report.warnings["bus"].missingTripRefs = 2
    /\ report.warnings["bus"].missingStopRefs = 2
    /\ report.warnings["bus"].sampleMissingStopIds = <<(<<"Y">>), (<<"Z">>)>>

---------------------------------------------------------------------------
(* C22: the row normalizers on any cell *)

\* C22: no stop_times row aborts the loop, whatever its cells hold, and every
\* assignment key has direction 0 or 1.
C22_NoRowAborts ==
    /\ pc # "raised"
    /\ \A key \in DOMAIN route_stop_map : key[2] \in {0, 1}

---------------------------------------------------------------------------
(* C23: child sets and the lookup *)

\* the stations whose child set holds raw id `raw`
StationsHolding(raw) ==
    {id \in DOMAIN station_map : raw \in station_map[id].child_stop_ids}

\* the stations the logged rows of raw id `raw` named
StationsNamedBy(raw) ==
    {NamedStation(stop_log[i]) : i \in {j \in 1..Len(stop_log) : stop_log[j][1] = raw}}

\* no station has an empty child set, and no emitted child list is empty or the
\* fallback
FallbackNeverNeeded ==
    /\ \A id \in DOMAIN station_map : station_map[id].child_stop_ids # {}
    /\ pc = "done" =>
          \A k \in 1..Len(result.stations_rows) :
              LET row == result.stations_rows[k]
              IN  /\ row.child_stop_ids_json # <<>>
                  /\ SeqRange(row.child_stop_ids_json) =
                        station_map[row.stop_id].child_stop_ids

(* C23 as stated: in a non-bus mode, after any sequence of stop rows, every raw
   stop id in the lookup is in the child set of exactly one station, the station
   the lookup maps it to, and no station's emitted child list is empty. *)
C23_ChildSetsPartition ==
    mode # "bus" =>
        /\ \A raw \in DOMAIN raw_stop_to_station :
               StationsHolding(raw) = {raw_stop_to_station[raw]}
        /\ FallbackNeverNeeded

(* C23 amended: in a non-bus mode, after any sequence of stop rows, every raw
   stop id in the lookup is in the child set of the station the lookup maps it
   to and, beyond that, of exactly the stations its rows named, which are several
   when rows repeat the raw id with different parent values; no station's child
   set or emitted child list is empty. *)
C23_ChildSetsCover ==
    mode # "bus" =>
        /\ \A raw \in DOMAIN raw_stop_to_station :
               /\ raw_stop_to_station[raw] \in StationsHolding(raw)
               /\ StationsHolding(raw) = StationsNamedBy(raw)
        /\ FallbackNeverNeeded

\* a subway result where "A" came first without parent and then under "P": the
\* lookup maps it to "P" and both stations list it as a child
C23_Witness ==
    /\ mode = "subway"
    /\ pc = "done"
    /\ Len(stop_log) = 2
    /\ stop_log[1][1] = <<"A">> /\ stop_log[1][2] = <<>>
    /\ stop_log[2][1] = <<"A">> /\ stop_log[2][2] = <<"P">>
    /\ raw_stop_to_station[<<"A">>] = <<"P">>
    /\ EmittedChild(<<"A">>, <<"A">>)
    /\ EmittedChild(<<"P">>, <<"A">>)

---------------------------------------------------------------------------
(* C24: what an assignment row references *)

EmittedStationIds == {loaded.stations_rows[k].stop_id : k \in 1..Len(loaded.stations_rows)}

LoadedRouteIds == {loaded.routes_rows[k].route_id : k \in 1..Len(loaded.routes_rows)}

\* the canonical route ids the kept trips rows of the dataset give
TripRouteIds(dataset) ==
    {normalize_route_id(dataset.trips[j].route_id) :
        j \in {k \in 1..Len(dataset.trips) : TripRowKept(dataset.trips[k])}}

\* the canonical route ids the kept routes rows of the dataset give
RoutesFileIds(dataset) ==
    {normalize_route_id(dataset.routes[j].route_id) :
        j \in {k \in 1..Len(dataset.routes) : RouteRowKept(dataset.routes[k])}}

(* C24 as stated: whenever main holds the result of a dataset, every emitted
   assignment row has the id of an emitted station row as station id and the id
   of an emitted route row as route id. *)
C24_NoDanglingReference ==
    main_pc \in {"insert", "upsert"} =>
        \A i \in 1..Len(loaded.route_stops_rows) :
            /\ loaded.route_stops_rows[i].stop_id \in EmittedStationIds
            /\ loaded.route_stops_rows[i].route_id \in LoadedRouteIds

(* C24 amended: whenever main holds the result of a dataset, every emitted
   assignment row has the id of an emitted station row as station id; its route
   id is the canonical route id of a trips row, and is the id of an emitted
   route row exactly when the routes table has a row for that route. *)
C24_StationsResolveRoutesMayDangle ==
    main_pc \in {"insert", "upsert"} =>
        \A dataset \in GoodDatasets(main_mode) :
            loaded = ProcessModeOf(main_mode, dataset) =>
                \A i \in 1..Len(loaded.route_stops_rows) :
                    LET row == loaded.route_stops_rows[i]
                    IN  /\ row.stop_id \in EmittedStationIds
                        /\ row.route_id \in TripRouteIds(dataset)
                        /\ row.route_id \in LoadedRouteIds
                              <=> row.route_id \in RoutesFileIds(dataset)

\* the result of the dataset without routes rows: assignments of route "R" to
\* emitted stations, and no route row
C24_Witness ==
    /\ main_pc \in {"insert", "upsert"}
    /\ loaded = ProcessModeOf(main_mode, DatasetC)
    /\ loaded.routes_rows = <<>>
    /\ \E i \in 1..Len(loaded.route_stops_rows) :
           /\ loaded.route_stops_rows[i].route_id = <<"R">>
           /\ loaded.route_stops_rows[i].stop_id \in EmittedStationIds

---------------------------------------------------------------------------
(* C25: the order of the stop_times rows *)

\* what the stop_times loop has built, or that it was left by an exception
Sequenced ==
    [route_stop_map    |-> route_stop_map,
     missing_trip_refs |-> missing_trip_refs,
     missing_stop_ids  |-> missing_stop_ids,
     raised            |-> pc = "raised"]

\* lines 305-334 on one more row, with the stops and trips of the run
SequencedAfter(st, row) ==
    IF st.raised \/ ~StopTimeRowKept(row) THEN st
    ELSE IF ~TripResolves(trip_map, row)
    THEN [st EXCEPT !.missing_trip_refs = @ + 1]
    ELSE IF ~StopResolves(station_map, raw_stop_to_station, row)
    THEN [st EXCEPT !.missing_stop_ids = @ \cup {normalize_text(row.stop_id)}]
    ELSE IF parse_int_raises(row.stop_sequence)
    THEN [st EXCEPT !.raised = TRUE]
    ELSE [st EXCEPT !.route_stop_map =
             RouteStopMapAfter(@, RouteStopKey(trip_map, raw_stop_to_station, row),
                               parse_int_or_none(row.stop_sequence))]

\* the map, the counter and the set of a loop that ended; a loop left by an
\* exception has none
SequencedOutcome(st) == IF st.raised THEN [raised |-> TRUE] ELSE st

\* the row just processed and one more row, in either order, give one outcome
CommutesWith(other) ==
    SequencedOutcome(SequencedAfter(Sequenced', other))
        = SequencedOutcome(SequencedAfter(SequencedAfter(Sequenced, other), cur_row'))

\* process_mode returns
ReturnStep == pc # "done" /\ pc' = "done"

\* C25: for fixed stops and trips, two neighbouring stop_times rows of a table
\* leave the same assignment map, missing-trip counter and missing-stop-ids set in
\* either order, wherever in the table they stand and whatever rows they are, so
\* that every permutation of the rows, being a chain of such exchanges, gives the
\* same map, counter and set; the emitted assignment rows and the reported
\* warnings are computed from these three alone.
C25_RowsCommute ==
    [][/\ StopTimeStep =>
             /\ Sequenced' = SequencedAfter(Sequenced, cur_row')
             /\ rows_parsed.stop_times + 2 <= MaxStopTimeRows =>
                    \A other \in SequencingStopTimeRows : CommutesWith(other)
       /\ ReturnStep =>
             /\ result'.route_stops_rows = RouteStopsRows(route_stop_map)
             /\ result'.warnings.missingTripRefs = missing_trip_refs
             /\ result'.missing_stop_ids = missing_stop_ids]_vars

\* a key that got sequence 1 first and then 3, the order in which the last row
\* does not give the stored value, next to an unknown trip and an unknown stop
C25_Witness ==
    /\ pc = "done"
    /\ rows_parsed.stop_times = MaxStopTimeRows
    /\ StopTimeRowKept(cur_row) /\ TripResolves(trip_map, cur_row)
    /\ StopResolves(station_map, raw_stop_to_station, cur_row)
    /\ parse_int_or_none(cur_row.stop_sequence) = Some(3)
    /\ LET key == RouteStopKey(trip_map, raw_stop_to_station, cur_row)
       IN  /\ route_stop_map[key] = Some(1)
           /\ \E k \in 1..Len(result.route_stops_rows) :
                  /\ result.route_stops_rows[k].stop_id = key[3]
                  /\ result.route_stops_rows[k].route_stop_sort_order = Some(1)

=============================================================================
